---- MODULE Spec2Model ----
(***************************************************************************)
(* FlowType: the realtime audio -> text -> injection pipeline.             *)
(*                                                                         *)
(*   device -> staging ring -> segmenter (EnergyVad, pre-roll) ->          *)
(*   resampler -> transcriber (noise filter) -> injector (Windows)         *)
(*                                                                         *)
(* Rust Strings are sequences of one-character strings; f32 amplitudes and *)
(* thresholds are integers in thousandths (0.008 is 8).                    *)
(***************************************************************************)
EXTENDS Integers, Sequences, FiniteSets, TLC

VARIABLES
    vad,              \* EnergyVad: thresholds, windows, current_state, energy_history
    pre_roll_buffer,  \* VecDeque<Vec<f32>>: frames kept while in Silence
    voice_buffer,     \* Vec<f32>: the segment accumulator
    last_state,       \* the segmenter's last published VadState
    current_timeout,  \* the segmenter's copy of the silence timeout (ms)
    audio_chan,       \* tx_audio/rx_audio: segmenter -> transcriber
    text_chan,        \* tx_text/rx_text: transcriber -> injector
    inj_pc,           \* injector thread: "recv" (blocked on rx_text) or "inject"
    inj_cur,          \* the text the injector thread holds between recv and inject
    settings,         \* the shared cells: auto_space, silence_timeout, allow_commands,
                      \* disable_punctuation, and the shortcut table
    persisted,        \* settings.json: <<>> when missing, else << the record it holds >>
    window_title,     \* title of the foreground window
    focused,          \* the focused UI Automation element (attributes and value)
    os_events,        \* every INPUT submitted with SendInput, in order
    clipboard,        \* the clipboard's text
    observer,         \* events emitted to the UI ("vad-update", "transcription")
    drainLog,         \* history: every non-empty frame drained, with the VAD state after it
    handed,           \* history: every buffer handed to the resampler
    rmsLog,           \* history: every RMS value fed to EnergyVad::process
    prevState,        \* history: the VAD state before the last process call
    transcribeLog,    \* history: one record per segment the transcriber received
    injectLog,        \* history: one record per inject call
    commandLog,       \* history: the control commands received, with their arguments
    resampleLog,      \* history: one record per AudioResampler::resample call followed
                      \* to its process calls
    captureLog,       \* history: the capture callbacks and the drains of the staging ring
    ctl,              \* the control commands in flight, each with its position and
                      \* its local record, and the holders of the shortcut table's lock
    config,           \* what a run is built with: the platform, pre_roll_frames and the
                      \* capacity of the staging ring
    threads,          \* what start_engine returned, and for the segmenter, transcriber
                      \* and injector threads: "not_started", "running" or "exited"
    staging           \* the staging ring (HeapRb<f32>): the samples pushed and not yet popped

segVars   == <<vad, pre_roll_buffer, voice_buffer, last_state, current_timeout>>
chanVars  == <<audio_chan, text_chan>>
injVars   == <<inj_pc, inj_cur>>
envVars   == <<settings, persisted, window_title, focused>>
osVars    == <<os_events, clipboard>>
histVars  == <<drainLog, handed, rmsLog, prevState, transcribeLog, injectLog, commandLog,
               resampleLog>>
sysVars   == <<config, threads, staging>>
vars      == <<segVars, chanVars, injVars, envVars, osVars, observer, histVars, sysVars, captureLog,
               ctl>>

Max(a, b) == IF a >= b THEN a ELSE b

\* the control commands that can be in flight at once
CommandIds == {1, 2}

\* no command in flight, the shortcut table's lock free
CtlIdle ==
    [readers |-> {}, writers |-> {}, held |-> <<>>,
     procs |-> [p \in CommandIds |->
                  [pc |-> "idle", op |-> "none", field |-> "none", key |-> <<>>,
                   value |-> <<>>, current |-> <<>>]],
     running |-> TRUE, rx |-> "load",
     cleared |-> [rx |-> "load", queued |-> 0, segments |-> 0, texts |-> 0],
     model |-> [bundled |-> FALSE, local |-> <<"absent">>, calls |-> <<>>],
     capture |-> <<>>,
     drain |-> [pc |-> "idle", available |-> 0, popped |-> 0, buffer |-> <<>>]]

Min(a, b) == IF a <= b THEN a ELSE b

RECURSIVE Flatten(_)
Flatten(ss) == IF ss = <<>> THEN <<>> ELSE Head(ss) \o Flatten(Tail(ss))

(***************************************************************************)
(* Text primitives (Rust std: char and str methods used by the code)       *)
(***************************************************************************)
\* char::is_ascii_punctuation's set; the grave accent (U+0060), which a TLA+
\* string cannot hold, is the one member left out and occurs in no modelled text
AsciiPunctuation ==
    { "!", "\"", "#", "$", "%", "&", "'", "(", ")", "*", "+", ",", "-", ".", "/",
      ":", ";", "<", "=", ">", "?", "@", "[", "\\", "]", "^", "_",
      "{", "|", "}", "~" }

is_ascii_punctuation(c) == c \in AsciiPunctuation

Whitespace == { " ", "\t", "\n", "\r" }

UpperLetters ==
    << "A", "B", "C", "D", "E", "F", "G", "H", "I", "J", "K", "L", "M",
       "N", "O", "P", "Q", "R", "S", "T", "U", "V", "W", "X", "Y", "Z" >>

LowerLetters ==
    << "a", "b", "c", "d", "e", "f", "g", "h", "i", "j", "k", "l", "m",
       "n", "o", "p", "q", "r", "s", "t", "u", "v", "w", "x", "y", "z" >>

LowerChar(c) ==
    IF \E i \in 1..Len(UpperLetters) : UpperLetters[i] = c
    THEN LowerLetters[CHOOSE i \in 1..Len(UpperLetters) : UpperLetters[i] = c]
    ELSE c

to_lowercase(s) == [i \in 1..Len(s) |-> LowerChar(s[i])]

RECURSIVE trim_start(_)
trim_start(s) ==
    IF s # <<>> /\ Head(s) \in Whitespace THEN trim_start(Tail(s)) ELSE s

RECURSIVE trim_end(_)
trim_end(s) ==
    IF s # <<>> /\ s[Len(s)] \in Whitespace
    THEN trim_end(SubSeq(s, 1, Len(s) - 1))
    ELSE s

trim(s) == trim_end(trim_start(s))

\* str::contains
Contains(s, sub) ==
    \E i \in 0..(Len(s) - Len(sub)) : SubSeq(s, i + 1, i + Len(sub)) = sub

\* str::starts_with
StartsWith(s, pre) == Len(s) >= Len(pre) /\ SubSeq(s, 1, Len(pre)) = pre

(***************************************************************************)
(* EnergyVad                                                               *)
(***************************************************************************)
\* the mutant of EnergyVadNew: the windows are rounded up to whole frames
EnergyVadNewRoundingUp(start_threshold, stop_threshold, start_window_ms, stop_window_ms, frame_rate_ms) ==
    [ start_threshold     |-> start_threshold,
      stop_threshold      |-> stop_threshold,
      start_window_frames |-> Max((start_window_ms + frame_rate_ms - 1) \div frame_rate_ms, 1),
      stop_window_frames  |-> Max((stop_window_ms + frame_rate_ms - 1) \div frame_rate_ms, 1),
      current_state       |-> "Silence",
      energy_history      |-> <<>> ]

EnergyVadNew(start_threshold, stop_threshold, start_window_ms, stop_window_ms, frame_rate_ms) ==
    [ start_threshold     |-> start_threshold,
      stop_threshold      |-> stop_threshold,
      start_window_frames |-> Max(start_window_ms \div frame_rate_ms, 1),
      stop_window_frames  |-> Max(stop_window_ms \div frame_rate_ms, 1),
      current_state       |-> "Silence",
      energy_history      |-> <<>> ]

\* the mutant of check_window: a value equal to the threshold counts
check_window_inclusive(v, threshold, window_size, greater) ==
    IF Len(v.energy_history) < window_size
    THEN FALSE
    ELSE LET start_idx == Len(v.energy_history) - window_size
         IN  \A i \in 0..(window_size - 1) :
                LET val == v.energy_history[start_idx + i + 1]
                IN  IF greater THEN ~(val < threshold) ELSE ~(val > threshold)

\* the mutant of check_window: the two comparisons are swapped
check_window_swapped(v, threshold, window_size, greater) ==
    IF Len(v.energy_history) < window_size
    THEN FALSE
    ELSE LET start_idx == Len(v.energy_history) - window_size
         IN  \A i \in 0..(window_size - 1) :
                LET val == v.energy_history[start_idx + i + 1]
                IN  IF greater THEN ~(val >= threshold) ELSE ~(val <= threshold)

check_window(v, threshold, window_size, greater) ==
    IF Len(v.energy_history) < window_size
    THEN FALSE
    ELSE LET start_idx == Len(v.energy_history) - window_size
         IN  \A i \in 0..(window_size - 1) :
                LET val == v.energy_history[start_idx + i + 1]
                IN  IF greater THEN ~(val <= threshold) ELSE ~(val >= threshold)

\* the mutant of process: the oldest value is never popped
process_unbounded(v, rms) ==
    LET v1 == [v EXCEPT !.energy_history = Append(v.energy_history, rms)]
    IN  IF v1.current_state = "Silence"
        THEN IF check_window(v1, v1.start_threshold, v1.start_window_frames, TRUE)
             THEN [v1 EXCEPT !.current_state = "Speaking"]
             ELSE v1
        ELSE IF check_window(v1, v1.stop_threshold, v1.stop_window_frames, FALSE)
             THEN [v1 EXCEPT !.current_state = "Silence"]
             ELSE v1

\* EnergyVad::process: the VAD after the call (its current_state is the result)
process(v, rms) ==
    LET h1 == IF Len(v.energy_history) >= Max(v.stop_window_frames, v.start_window_frames)
              THEN Tail(v.energy_history)
              ELSE v.energy_history
        v1 == [v EXCEPT !.energy_history = Append(h1, rms)]
    IN  IF v1.current_state = "Silence"
        THEN IF check_window(v1, v1.start_threshold, v1.start_window_frames, TRUE)
             THEN [v1 EXCEPT !.current_state = "Speaking"]
             ELSE v1
        ELSE IF check_window(v1, v1.stop_threshold, v1.stop_window_frames, FALSE)
             THEN [v1 EXCEPT !.current_state = "Silence"]
             ELSE v1

(***************************************************************************)
(* Segmenter: the loop of run_engine_loop                                  *)
(***************************************************************************)
FRAME_SIZE_MS == 30

\* EnergyVad::new(0.008, 0.005, 300, 500, FRAME_SIZE_MS)
VAD_START_THRESHOLD == 8
VAD_STOP_THRESHOLD  == 5

\* Bounds.  run_engine_loop uses a start window of 300 ms (10 frames), a stop
\* window of 500 ms (16 frames) and a pre-roll of 16 frames; the model keeps
\* the code and checks it with windows of a few frames.
StartWindowFrames == 2
StopWindowFrames  == 2
PreRollFrames     == 2
FrameLen          == 2      \* samples drained per non-empty tick
MaxFrames         == 8      \* non-empty frames drained in one run
RingCapacity      == 4      \* RINGBUF_SIZE, 160000 samples in the code

\* A sample is <<frame number, index in the frame, amplitude>>: the first two
\* make every drained sample distinct, the third is its f32 value.
Amp(sample) == sample[3]

\* amplitudes of the frames fed in: below stop, between the thresholds, above start
FrameAmps == {4, 6, 9}

MakeFrame(n, a) == [i \in 1..FrameLen |-> <<n, i, a>>]

RECURSIVE SumSquares(_)
SumSquares(samples) ==
    IF samples = <<>> THEN 0
    ELSE Amp(Head(samples)) * Amp(Head(samples)) + SumSquares(Tail(samples))

ISqrt(n) == CHOOSE r \in 0..n : r * r <= n /\ (r + 1) * (r + 1) > n

\* EnergyVad::calculate_rms
calculate_rms(samples) ==
    IF samples = <<>> THEN 0
    ELSE ISqrt(SumSquares(samples) \div Len(samples))

\* pre_roll_frames = (0.5 * 1000.0 / FRAME_SIZE_MS as f32) as usize, as the run was built
pre_roll_frames == config.pre_roll_frames

\* the mutant of PreRollPush: the ring keeps its oldest frames
PreRollPushKeepOldest(ring, buffer, state) ==
    IF state = "Silence"
    THEN IF Len(ring) >= pre_roll_frames THEN ring ELSE Append(ring, buffer)
    ELSE ring

\* the mutant of PreRollPush: the frame is pushed in either state
PreRollPushAlways(ring, buffer, state) ==
    Append(IF Len(ring) >= pre_roll_frames THEN Tail(ring) ELSE ring, buffer)

\* if Silence: pop_front when full, then push_back(buffer.clone())
PreRollPush(ring, buffer, state) ==
    IF state = "Silence"
    THEN Append(IF Len(ring) >= pre_roll_frames THEN Tail(ring) ELSE ring, buffer)
    ELSE ring

\* the mutant of SpliceAndAppend: the pre-roll is not prepended
SpliceNoPreRoll(voice, ring, buffer, last, state) ==
    IF state = "Speaking" THEN voice \o buffer ELSE voice

\* on Silence -> Speaking extend voice_buffer with every pre-roll chunk; while
\* Speaking extend it with the frame
SpliceAndAppend(voice, ring, buffer, last, state) ==
    LET spliced == IF last = "Silence" /\ state = "Speaking"
                   THEN voice \o Flatten(ring)
                   ELSE voice
    IN  IF state = "Speaking" THEN spliced \o buffer ELSE spliced

(***************************************************************************)
(* Resampler                                                               *)
(***************************************************************************)
\* source_rate / SAMPLE_RATE for the device (48 kHz gives 3); a bound here
RateRatio == 2

\* chunk size: source_rate * FRAME_SIZE_MS / 1000, one frame's worth of samples
chunk_size == FrameLen

ZeroSample == <<0, 0, 0>>

\* FastFixedIn::process on one chunk: chunk_size / ratio output samples, each
\* taken at the matching input position
RubatoProcess(chunk) ==
    [i \in 1..(Len(chunk) \div RateRatio) |-> chunk[(i - 1) * RateRatio + 1]]

RECURSIVE Chunks(_, _)
\* input.chunks(size): consecutive pieces of `size` elements, the last one shorter
Chunks(input, size) ==
    IF input = <<>> THEN <<>>
    ELSE LET n == Min(size, Len(input))
         IN  << SubSeq(input, 1, n) >> \o Chunks(SubSeq(input, n + 1, Len(input)), size)

\* the mutant of resample_with: the last piece is passed on as it is
resample_unpadded(input, fails) ==
    LET pieces == Chunks(input, chunk_size)
        bad    == { k \in 1..Len(pieces) : k \in fails }
        last   == IF bad = {} THEN Len(pieces)
                  ELSE CHOOSE k \in bad : \A j \in bad : k <= j
        calls  == [k \in 1..last |-> pieces[k]]
    IN  [ok     |-> bad = {},
         calls  |-> calls,
         output |-> IF bad = {}
                    THEN Flatten([k \in 1..last |-> RubatoProcess(calls[k])])
                    ELSE <<>>]

\* AudioResampler::resample, `fails` being the pieces on which
\* self.resampler.process returns an error: the process calls made, each with
\* its chunk, and the result
resample_with(input, fails) ==
    LET pieces == Chunks(input, chunk_size)
        bad    == { k \in 1..Len(pieces) : k \in fails }
        last   == IF bad = {} THEN Len(pieces)
                  ELSE CHOOSE k \in bad : \A j \in bad : k <= j
        calls  == [k \in 1..last |->
                     pieces[k] \o [i \in 1..(chunk_size - Len(pieces[k])) |-> ZeroSample]]
    IN  [ok     |-> bad = {},
         calls  |-> calls,
         output |-> IF bad = {}
                    THEN Flatten([k \in 1..last |-> RubatoProcess(calls[k])])
                    ELSE <<>>]

RECURSIVE resample(_)
\* AudioResampler::resample when every process call succeeds
resample(input) ==
    IF input = <<>> THEN <<>>
    ELSE LET n      == Min(chunk_size, Len(input))
             chunk  == SubSeq(input, 1, n)
             padded == chunk \o [i \in 1..(chunk_size - n) |-> ZeroSample]
         IN  RubatoProcess(padded) \o resample(SubSeq(input, n + 1, Len(input)))

(***************************************************************************)
(* Channels (crossbeam unbounded, one sender and one receiver each)        *)
(***************************************************************************)
\* the mutant of ChanSend: the message is queued twice
ChanSendTwice(q, m) == Append(Append(q, m), m)

\* Sender::send: the message goes to the back of the channel
ChanSend(q, m) == Append(q, m)

\* the mutant of ChanRecv: the newest message is received first
ChanRecvNewest(q) == [msg |-> q[Len(q)], rest |-> SubSeq(q, 1, Len(q) - 1)]

ChanRecv(q) == [msg |-> Head(q), rest |-> Tail(q)]

\* vad.update_stop_window(ms, frame_ms): stop_frames is recomputed as in
\* EnergyVad::new and the history ring re-bounded; the state is kept
update_stop_window(v, stop_window_ms, frame_rate_ms) ==
    LET stop_frames == Max(stop_window_ms \div frame_rate_ms, 1)
        bound       == Max(v.start_window_frames, stop_frames)
        h           == v.energy_history
    IN  [v EXCEPT !.stop_window_frames = stop_frames,
                  !.energy_history =
                      IF Len(h) > bound THEN SubSeq(h, Len(h) - bound + 1, Len(h)) ELSE h]

\* the mutant of PollTimeout: a changed timeout builds a new EnergyVad
PollTimeoutRebuilding(v, current, target) ==
    IF target # current
    THEN [current_timeout |-> target,
          vad |-> EnergyVadNew(v.start_threshold, v.stop_threshold,
                               v.start_window_frames * FRAME_SIZE_MS, target, FRAME_SIZE_MS)]
    ELSE [current_timeout |-> current, vad |-> v]

\* the head of the loop: if target_timeout != current_timeout { ... }
PollTimeout(v, current, target) ==
    IF target # current
    THEN [current_timeout |-> target, vad |-> update_stop_window(v, target, FRAME_SIZE_MS)]
    ELSE [current_timeout |-> current, vad |-> v]

\* the mutant of EmitVadUpdate: an event on every tick
EmitVadUpdateAlways(events, state, last, rms) ==
    Append(events, [event |-> "vad-update",
                    state |-> IF state = "Speaking" THEN "speaking" ELSE "silence",
                    rms   |-> rms])

\* if discriminant(&state) != discriminant(&last_state): emit "vad-update"
EmitVadUpdate(events, state, last, rms) ==
    IF state # last
    THEN Append(events, [event |-> "vad-update",
                         state |-> IF state = "Speaking" THEN "speaking" ELSE "silence",
                         rms   |-> rms])
    ELSE events

\* One tick of the loop with `buffer` the samples drained from the ring, which
\* the drain leaves empty.  A send on a channel whose receiver is gone fails
\* and is ignored (.ok()).
SegmenterDrain(buffer, resample_ok) ==
    /\ threads.segmenter = "running"
    /\ UNCHANGED <<config, threads>>
    /\ LET polled == PollTimeout(vad, current_timeout, settings.silence_timeout)
       IN
       /\ current_timeout' = polled.current_timeout
       /\ IF buffer = <<>>
          THEN /\ vad' = polled.vad
               /\ UNCHANGED <<pre_roll_buffer, voice_buffer, last_state,
                              chanVars, observer, histVars>>
          ELSE LET rms     == calculate_rms(buffer)
                   v2      == process(polled.vad, rms)
                   state   == v2.current_state
                   ring1   == PreRollPush(pre_roll_buffer, buffer, state)
                   voice1  == SpliceAndAppend(voice_buffer, ring1, buffer, last_state, state)
                   started == last_state = "Silence" /\ state = "Speaking"
                   ended   == last_state = "Speaking" /\ state = "Silence"
                   hand    == ended /\ voice1 # <<>>
               IN  /\ vad' = v2
                   /\ pre_roll_buffer' = IF started THEN <<>> ELSE ring1
                   /\ voice_buffer' = IF hand THEN <<>> ELSE voice1
                   /\ handed' = IF hand THEN Append(handed, voice1) ELSE handed
                   /\ audio_chan' =
                        IF hand /\ resample_ok /\ threads.transcriber = "running"
                        THEN ChanSend(audio_chan, [seg |-> Len(handed) + 1, data |-> resample(voice1)])
                        ELSE audio_chan
                   /\ observer' = EmitVadUpdate(observer, state, last_state, rms)
                   /\ last_state' = state
                   /\ drainLog' = Append(drainLog,
                          [frame |-> buffer, state |-> state, last |-> last_state,
                           timeout |-> settings.silence_timeout,
                           stop_frames |-> polled.vad.stop_window_frames,
                           hand |-> hand, resampled |-> hand /\ resample_ok])
                   /\ rmsLog' = Append(rmsLog, rms)
                   /\ prevState' = vad.current_state
                   /\ UNCHANGED <<text_chan, transcribeLog, injectLog, commandLog, resampleLog>>
    /\ UNCHANGED <<injVars, envVars, osVars>>

\* one turn of the loop whose drain took `buffer` out of the staging ring
SegmenterTick(buffer, resample_ok) ==
    /\ SegmenterDrain(buffer, resample_ok)
    /\ staging' = <<>>
    /\ UNCHANGED <<captureLog, ctl>>

(***************************************************************************)
(* Transcriber: TranscriptionEngine::run                                   *)
(***************************************************************************)
Openers == { "[", "(" }
Closers == { "]", ")" }

RECURSIVE strip_brackets_paired(_)
\* the mutant of strip_brackets: a span ends at the closer of its opener's kind
strip_brackets_paired(text) ==
    IF \E i \in 1..Len(text) : text[i] \in Openers
    THEN LET start  == CHOOSE i \in 1..Len(text) :
                          /\ text[i] \in Openers
                          /\ \A k \in 1..(i - 1) : text[k] \notin Openers
             closer == IF text[start] = "[" THEN "]" ELSE ")"
         IN  IF \E j \in start..Len(text) : text[j] = closer
             THEN LET end == CHOOSE j \in start..Len(text) :
                                /\ text[j] = closer
                                /\ \A k \in start..(j - 1) : text[k] # closer
                  IN  strip_brackets_paired(SubSeq(text, 1, start - 1)
                                            \o SubSeq(text, end + 1, Len(text)))
             ELSE text
    ELSE text

RECURSIVE strip_brackets(_)
\* while let Some(start) = text.find(opener) { if let Some(end) = text[start..].find(closer)
\*   { text.replace_range(start..start + end + 1, "") } else { break } }
strip_brackets(text) ==
    IF \E i \in 1..Len(text) : text[i] \in Openers
    THEN LET start == CHOOSE i \in 1..Len(text) :
                         /\ text[i] \in Openers
                         /\ \A k \in 1..(i - 1) : text[k] \notin Openers
         IN  IF \E j \in start..Len(text) : text[j] \in Closers
             THEN LET end == CHOOSE j \in start..Len(text) :
                                /\ text[j] \in Closers
                                /\ \A k \in start..(j - 1) : text[k] \notin Closers
                  IN  strip_brackets(SubSeq(text, 1, start - 1) \o SubSeq(text, end + 1, Len(text)))
             ELSE text
    ELSE text

\* the mutant of strip_once: only the opener is removed
strip_once_opener(text) ==
    IF \E i \in 1..Len(text) : text[i] \in Openers
    THEN LET start == CHOOSE i \in 1..Len(text) :
                         /\ text[i] \in Openers
                         /\ \A k \in 1..(i - 1) : text[k] \notin Openers
         IN  IF \E j \in start..Len(text) : text[j] \in Closers
             THEN [entered |-> TRUE, removed |-> TRUE,
                   text |-> SubSeq(text, 1, start - 1) \o SubSeq(text, start + 1, Len(text))]
             ELSE [entered |-> TRUE, removed |-> FALSE, text |-> text]
    ELSE [entered |-> FALSE, removed |-> FALSE, text |-> text]

\* one evaluation of the while-let condition and, if an opener is found, one
\* pass of the body: replace_range on the span, or break
strip_once(text) ==
    IF \E i \in 1..Len(text) : text[i] \in Openers
    THEN LET start == CHOOSE i \in 1..Len(text) :
                         /\ text[i] \in Openers
                         /\ \A k \in 1..(i - 1) : text[k] \notin Openers
         IN  IF \E j \in start..Len(text) : text[j] \in Closers
             THEN LET end == CHOOSE j \in start..Len(text) :
                                /\ text[j] \in Closers
                                /\ \A k \in start..(j - 1) : text[k] \notin Closers
                  IN  [entered |-> TRUE, removed |-> TRUE,
                       text |-> SubSeq(text, 1, start - 1) \o SubSeq(text, end + 1, Len(text))]
             ELSE [entered |-> TRUE, removed |-> FALSE, text |-> text]
    ELSE [entered |-> FALSE, removed |-> FALSE, text |-> text]

RECURSIVE strip_passes(_)
\* the passes of the loop body on `text`, in order, up to the one that leaves
strip_passes(text) ==
    LET pass == strip_once(text)
    IN  IF ~pass.entered THEN <<>>
        ELSE IF ~pass.removed THEN << [before |-> text, after |-> text, removed |-> FALSE] >>
        ELSE << [before |-> text, after |-> pass.text, removed |-> TRUE] >>
             \o strip_passes(pass.text)

\* the hallucination filter: trim, strip the bracketed spans, trim
filter_text(full_text) == trim(strip_brackets(trim(full_text)))

T_Ellipsis == << ".", ".", "." >>
T_NoisePrefix == << "[", "_" >>

\* the mutant of keep_text: only the empty text is dropped
keep_text_nonempty(text) == text # <<>>

\* the text is sent unless it is empty, "..." or begins with "[_"
keep_text(text) ==
    /\ text # <<>>
    /\ text # T_Ellipsis
    /\ ~StartsWith(text, T_NoisePrefix)

\* what the model returns for a segment in the pipeline runs
W_Hi    == << " ", "H", "i", ",", " ", "a", "l", "l", "." >>
W_Blank == << " ", "[", "B", "L", "A", "N", "K", "_", "A", "U", "D", "I", "O", "]" >>
WhisperOutputs == { W_Hi, W_Blank }

\* the mutant of TranscriberStep: a segment whose inference failed stays at
\* the head of the queue
TranscriberStepRetrying(inference_ok, full_text) ==
    /\ threads.transcriber = "running"
    /\ audio_chan # <<>>
    /\ LET r    == ChanRecv(audio_chan)
           text == filter_text(full_text)
           sent == r.msg.data # <<>> /\ inference_ok /\ keep_text(text)
       IN  /\ audio_chan' = IF inference_ok THEN r.rest ELSE audio_chan
           /\ transcribeLog' = Append(transcribeLog,
                  [seg |-> r.msg.seg, inference_ok |-> inference_ok,
                   full_text |-> full_text, text |-> text, sent |-> sent])
           /\ text_chan' =
                IF sent /\ threads.injector = "running"
                THEN ChanSend(text_chan, [seg |-> r.msg.seg, text |-> text])
                ELSE text_chan
    /\ UNCHANGED <<segVars, injVars, envVars, osVars, observer, sysVars,
                   drainLog, handed, rmsLog, prevState, injectLog, commandLog, resampleLog, captureLog, ctl>>

\* One pass of the loop: receive a segment, run the model (`inference_ok`,
\* and `full_text`, the text of its segments concatenated), filter, send.
TranscriberSegment(inference_ok, full_text) ==
    /\ threads.transcriber = "running"
    /\ audio_chan # <<>>
    /\ LET r    == ChanRecv(audio_chan)
           text == filter_text(full_text)
           sent == r.msg.data # <<>> /\ inference_ok /\ keep_text(text)
       IN  /\ audio_chan' = r.rest
           /\ transcribeLog' = Append(transcribeLog,
                  [seg |-> r.msg.seg, inference_ok |-> inference_ok,
                   full_text |-> full_text, text |-> text, sent |-> sent])
           /\ text_chan' =
                IF sent /\ threads.injector = "running"
                THEN ChanSend(text_chan, [seg |-> r.msg.seg, text |-> text])
                ELSE text_chan
    /\ UNCHANGED <<segVars, injVars, envVars, osVars, observer, sysVars,
                   drainLog, handed, rmsLog, prevState, injectLog, commandLog, resampleLog, captureLog>>

\* one turn of `while running.load(..)` with the flag set, as it always is
\* while the application runs
TranscriberStep(inference_ok, full_text) ==
    /\ ctl.running
    /\ TranscriberSegment(inference_ok, full_text)
    /\ UNCHANGED ctl

(***************************************************************************)
(* Injector thread: text preparation (run_engine_loop)                     *)
(***************************************************************************)
RECURSIVE collapse_spaces(_, _)
\* the loop that pushes a space only when the last pushed char was not one
collapse_spaces(text, last_was_space) ==
    IF text = <<>> THEN <<>>
    ELSE LET c == Head(text)
         IN  IF c = " "
             THEN (IF ~last_was_space THEN <<c>> ELSE <<>>) \o collapse_spaces(Tail(text), TRUE)
             ELSE <<c>> \o collapse_spaces(Tail(text), FALSE)

NotPunctuation(c) == ~is_ascii_punctuation(c)

\* the mutant of clean_punctuation: punctuation is removed, not replaced
clean_punctuation_removing(text) ==
    trim(collapse_spaces(SelectSeq(text, NotPunctuation), FALSE))

\* punctuation -> ' ', runs of ' ' -> one, trim
clean_punctuation(text) ==
    trim(collapse_spaces(
        [i \in 1..Len(text) |-> IF is_ascii_punctuation(text[i]) THEN " " ELSE text[i]],
        FALSE))

\* the text after the auto-space and punctuation steps of the loop
prepare_text(text, auto_space, punctuations_disabled) ==
    LET spaced == IF auto_space THEN Append(text, " ") ELSE text
    IN  IF punctuations_disabled THEN clean_punctuation(spaced) ELSE spaced

(***************************************************************************)
(* PlatformInjector (Windows)                                              *)
(***************************************************************************)
T_BACKSPACE   == << "[", "B", "A", "C", "K", "S", "P", "A", "C", "E", "]" >>
T_DELETE      == << "[", "D", "E", "L", "E", "T", "E", "]" >>
T_ENTER       == << "[", "E", "N", "T", "E", "R", "]" >>
T_DELETE_LINE == << "[", "D", "E", "L", "E", "T", "E", "_", "L", "I", "N", "E", "]" >>

K_delete      == << "d", "e", "l", "e", "t", "e" >>
K_backspace   == << "b", "a", "c", "k", "s", "p", "a", "c", "e" >>
K_delete_that == << "d", "e", "l", "e", "t", "e", " ", "t", "h", "a", "t" >>
K_new_line    == << "n", "e", "w", " ", "l", "i", "n", "e" >>
K_enter       == << "e", "n", "t", "e", "r" >>
K_space       == << "s", "p", "a", "c", "e" >>

\* AppSettings::default().shortcuts
DefaultShortcuts ==
    [k \in {K_delete, K_backspace, K_delete_that, K_new_line, K_enter, K_space} |->
        CASE k = K_delete      -> T_BACKSPACE
          [] k = K_backspace   -> T_BACKSPACE
          [] k = K_delete_that -> T_DELETE_LINE
          [] k = K_new_line    -> T_ENTER
          [] k = K_enter       -> T_ENTER
          [] k = K_space       -> << " " >>]

KeyDown(vk)  == [vk |-> vk, scan |-> "", flags |-> {}]
KeyUp(vk)    == [vk |-> vk, scan |-> "", flags |-> {"KEYUP"}]
UnicodeDown(c) == [vk |-> "", scan |-> c, flags |-> {"UNICODE"}]
UnicodeUp(c)   == [vk |-> "", scan |-> c, flags |-> {"UNICODE", "KEYUP"}]

send_key(vk) == << KeyDown(vk), KeyUp(vk) >>

delete_line ==
    << KeyDown("VK_SHIFT"), KeyDown("VK_HOME"), KeyUp("VK_HOME"), KeyUp("VK_SHIFT"),
       KeyDown("VK_BACK"), KeyUp("VK_BACK") >>

\* the mutant of inject_keyboard_unicode: key-downs only
inject_keyboard_unicode_downs(text) ==
    [ok |-> TRUE, events |-> [i \in 1..Len(text) |-> UnicodeDown(text[i])]]

\* one key-down and one key-up per UTF-16 code unit; always Ok
inject_keyboard_unicode(text) ==
    [ok |-> TRUE,
     events |-> Flatten([i \in 1..Len(text) |-> << UnicodeDown(text[i]), UnicodeUp(text[i]) >>])]

paste_chord ==
    << KeyDown("VK_CONTROL"), KeyDown("VK_V"), KeyUp("VK_V"), KeyUp("VK_CONTROL") >>

\* Clipboard::new and set_text succeed iff clip_ok; then Ctrl+V
inject_clipboard(text, clip, clip_ok) ==
    IF clip_ok
    THEN [ok |-> TRUE, events |-> paste_chord, clipboard |-> text]
    ELSE [ok |-> FALSE, events |-> <<>>, clipboard |-> clip]

\* GetFocusedElement and the TextPattern may be there; the write is not implemented
inject_uia_text(el) == [ok |-> FALSE]

\* ValuePattern: read the value, append, SetValue
inject_uia_value(el, text) ==
    IF el.present /\ el.has_value_pattern /\ el.set_value_ok
    THEN [ok |-> TRUE, value |-> el.value \o text]
    ELSE [ok |-> FALSE, value |-> el.value]

N_VisualStudioCode == << "V", "i", "s", "u", "a", "l", " ", "S", "t", "u", "d", "i", "o", " ", "C", "o", "d", "e" >>
N_Antigravity      == << "A", "n", "t", "i", "g", "r", "a", "v", "i", "t", "y" >>

is_vscode_focused(title) ==
    IF Len(title) > 0
    THEN Contains(title, N_VisualStudioCode) \/ Contains(title, N_Antigravity)
    ELSE FALSE

UIA_EditControlTypeId     == 50004
UIA_DocumentControlTypeId == 50025
UIA_PaneControlTypeId     == 50020
UIA_GroupControlTypeId    == 50033
NoControlType             == 0      \* CurrentControlType() failed: .ok() is None

N_document_content == << "d", "o", "c", "u", "m", "e", "n", "t", " ", "c", "o", "n", "t", "e", "n", "t" >>
N_google_docs      == << "g", "o", "o", "g", "l", "e", " ", "d", "o", "c", "s" >>
N_editor           == << "e", "d", "i", "t", "o", "r" >>
N_compose          == << "c", "o", "m", "p", "o", "s", "e" >>
N_message_body     == << "m", "e", "s", "s", "a", "g", "e", " ", "b", "o", "d", "y" >>
N_input            == << "i", "n", "p", "u", "t" >>
N_edit             == << "e", "d", "i", "t" >>
N_text_box         == << "t", "e", "x", "t", " ", "b", "o", "x" >>
N_textarea         == << "t", "e", "x", "t", "a", "r", "e", "a" >>
N_rich_text        == << "r", "i", "c", "h", " ", "t", "e", "x", "t" >>

browser_non_edit_classes ==
    { << "C", "h", "r", "o", "m", "e", "_", "R", "e", "n", "d", "e", "r", "W", "i", "d", "g", "e", "t", "H", "o", "s", "t", "H", "W", "N", "D" >>,
      << "M", "o", "z", "i", "l", "l", "a", "W", "i", "n", "d", "o", "w", "C", "l", "a", "s", "s" >>,
      << "I", "n", "t", "e", "r", "n", "e", "t", " ", "E", "x", "p", "l", "o", "r", "e", "r", "_", "S", "e", "r", "v", "e", "r" >>,
      << "C", "e", "f", "B", "r", "o", "w", "s", "e", "r", "W", "i", "n", "d", "o", "w" >> }

\* PlatformInjector::is_editable_element on the focused element `el`
is_editable_element(el) ==
    IF ~el.present THEN FALSE
    ELSE
    LET name_lower == to_lowercase(el.name)
        ct         == el.control_type
    IN  IF Contains(name_lower, N_document_content) \/ Contains(name_lower, N_google_docs)
        THEN TRUE
        ELSE IF ~el.keyboard_focusable THEN FALSE
        ELSE IF \E bc \in browser_non_edit_classes :
                    /\ Contains(el.class_name, bc)
                    /\ \/ ct = NoControlType
                       \/ (ct # UIA_EditControlTypeId /\ ct # UIA_DocumentControlTypeId)
        THEN FALSE
        ELSE IF ct = UIA_EditControlTypeId THEN TRUE
        ELSE IF ct = UIA_DocumentControlTypeId
        THEN \/ el.has_value_pattern
             \/ Contains(name_lower, N_editor)
             \/ Contains(name_lower, N_compose)
             \/ Contains(name_lower, N_message_body)
        ELSE IF ct = UIA_PaneControlTypeId
        THEN Contains(name_lower, N_editor) \/ Contains(name_lower, N_input)
        ELSE IF ct = UIA_GroupControlTypeId THEN FALSE
        ELSE IF el.has_value_pattern
        THEN ~(el.readonly = "true")
        ELSE IF el.has_text_pattern
        THEN \/ Contains(name_lower, N_edit)
             \/ Contains(name_lower, N_input)
             \/ Contains(name_lower, N_text_box)
             \/ Contains(name_lower, N_textarea)
             \/ Contains(to_lowercase(el.class_name), N_edit)
        ELSE \/ Contains(name_lower, N_rich_text)
             \/ Contains(name_lower, N_compose)
             \/ Contains(name_lower, N_message_body)

\* what one inject call did: its result, the INPUTs it submitted, the focused
\* element's value and the clipboard after it, how it got there, and the calls
\* it made on the way, in order (the strategies and "gate", is_editable_element)
Effects(ok, how, key, typed, events, value, clip, tried) ==
    [ok |-> ok, how |-> how, key |-> key, typed |-> typed,
     events |-> events, value |-> value, clipboard |-> clip, tried |-> tried]

\* the strategies of inject for a non-empty text_to_inject
inject_strategies(text_to_inject, key, title, el, clip, clip_ok) ==
    LET target_is_vscode == is_vscode_focused(title)
        by_text  == inject_uia_text(el)
        by_value == inject_uia_value(el, text_to_inject)
        by_keys  == inject_keyboard_unicode(text_to_inject)
        by_clip  == inject_clipboard(text_to_inject, clip, clip_ok)
        uia      == IF target_is_vscode THEN <<>> ELSE << "uia_text", "uia_value" >>
        gated    == IF target_is_vscode THEN <<>> ELSE uia \o << "gate" >>
    IN  IF ~target_is_vscode /\ by_text.ok
        THEN Effects(TRUE, "uia_text", key, text_to_inject, <<>>, el.value, clip,
                     << "uia_text" >>)
        ELSE IF ~target_is_vscode /\ by_value.ok
        THEN Effects(TRUE, "uia_value", key, text_to_inject, <<>>, by_value.value, clip, uia)
        ELSE IF target_is_vscode \/ is_editable_element(el)
        THEN IF by_keys.ok
             THEN Effects(TRUE, "keyboard", key, text_to_inject, by_keys.events, el.value, clip,
                          gated \o << "keyboard" >>)
             ELSE Effects(by_clip.ok, "clipboard", key, text_to_inject,
                          by_clip.events, el.value, by_clip.clipboard,
                          gated \o << "keyboard", "clipboard" >>)
        ELSE Effects(TRUE, "skipped", key, text_to_inject, <<>>, el.value, clip, gated)

\* the mutant of lookup_key: ASCII punctuation is always stripped from the key
lookup_key_stripped(text_to_inject) ==
    to_lowercase(trim(SelectSeq(text_to_inject, NotPunctuation)))

\* let clean = text_to_inject.trim().to_lowercase()
lookup_key(text_to_inject) == to_lowercase(trim(text_to_inject))

NoKey == << "none" >>

\* PlatformInjector::inject (Windows)
inject(text, allow_commands, shortcuts, disable_punctuation, title, el, clip, clip_ok) ==
    IF text = <<>>
    THEN Effects(TRUE, "empty", NoKey, <<>>, <<>>, el.value, clip, <<>>)
    ELSE
    LET filtered == IF disable_punctuation THEN SelectSeq(text, NotPunctuation) ELSE text
        clean    == IF allow_commands THEN lookup_key(filtered) ELSE NoKey
        found    == allow_commands /\ clean \in DOMAIN shortcuts
        result   == IF found THEN shortcuts[clean] ELSE <<>>
        command(events) == Effects(TRUE, "command", clean, <<>>, events, el.value, clip, <<>>)
    IN  IF found /\ result = T_BACKSPACE THEN command(send_key("VK_BACK"))
        ELSE IF found /\ result = T_DELETE THEN command(send_key("VK_DELETE"))
        ELSE IF found /\ result = T_ENTER THEN command(send_key("VK_RETURN"))
        ELSE IF found /\ result = T_DELETE_LINE THEN command(delete_line)
        ELSE LET text_to_inject == IF found THEN result ELSE filtered
             IN  IF text_to_inject = <<>>
                 THEN Effects(TRUE, "empty", clean, <<>>, <<>>, el.value, clip, <<>>)
                 ELSE inject_strategies(text_to_inject, clean, title, el, clip, clip_ok)

(***************************************************************************)
(* Injector thread: the loop                                               *)
(***************************************************************************)
\* the mutant of InjectorRecv: the event carries the text as received
InjectorRecvRaw ==
    /\ threads.injector = "running"
    /\ inj_pc = "recv"
    /\ text_chan # <<>>
    /\ LET r     == ChanRecv(text_chan)
           punct == settings.disable_punctuation
           text  == prepare_text(r.msg.text, settings.auto_space, punct)
       IN  /\ text_chan' = r.rest
           /\ observer' = Append(observer, [event |-> "transcription", text |-> r.msg.text])
           /\ inj_cur' = [seg |-> r.msg.seg, received |-> r.msg.text, text |-> text,
                          auto_space |-> settings.auto_space,
                          punctuations_disabled |-> punct]
           /\ inj_pc' = "inject"
    /\ UNCHANGED <<segVars, audio_chan, envVars, osVars, histVars, sysVars, captureLog, ctl>>

\* while let Ok(text) = rx_text.recv(): auto-space, punctuation filter, emit
InjectorRecv ==
    /\ threads.injector = "running"
    /\ inj_pc = "recv"
    /\ text_chan # <<>>
    /\ LET r     == ChanRecv(text_chan)
           punct == settings.disable_punctuation
           text  == prepare_text(r.msg.text, settings.auto_space, punct)
       IN  /\ text_chan' = r.rest
           /\ observer' = Append(observer, [event |-> "transcription", text |-> text])
           /\ inj_cur' = [seg |-> r.msg.seg, received |-> r.msg.text, text |-> text,
                          auto_space |-> settings.auto_space,
                          punctuations_disabled |-> punct]
           /\ inj_pc' = "inject"
    /\ UNCHANGED <<segVars, audio_chan, envVars, osVars, histVars, sysVars, captureLog, ctl>>

\* the key click of enigo.key(key, Direction::Click)
enigo_key(key) == << KeyDown(key), KeyUp(key) >>

\* PlatformInjector::inject (macOS): the last enigo call of the path succeeds
\* iff enigo_ok, and its error is the result of inject
inject_macos(text, allow_commands, shortcuts, disable_punctuation, el, clip, enigo_ok) ==
    IF text = <<>>
    THEN Effects(TRUE, "empty", NoKey, <<>>, <<>>, el.value, clip, <<>>)
    ELSE
    LET filtered == IF disable_punctuation THEN SelectSeq(text, NotPunctuation) ELSE text
        clean    == IF allow_commands THEN lookup_key(filtered) ELSE NoKey
        found    == allow_commands /\ clean \in DOMAIN shortcuts
        result   == IF found THEN shortcuts[clean] ELSE <<>>
        command(done, last) ==
            Effects(enigo_ok, "command", clean, <<>>, IF enigo_ok THEN done \o last ELSE done,
                    el.value, clip, <<>>)
    IN  IF found /\ result = T_BACKSPACE THEN command(<<>>, enigo_key("Backspace"))
        ELSE IF found /\ result = T_DELETE THEN command(<<>>, enigo_key("Delete"))
        ELSE IF found /\ result = T_ENTER THEN command(<<>>, enigo_key("Return"))
        ELSE IF found /\ result = T_DELETE_LINE
        THEN command(<< KeyDown("Command") >> \o enigo_key("Backspace"),
                     << KeyUp("Command") >>)
        ELSE LET text_to_inject == IF found THEN result ELSE filtered
             IN  IF text_to_inject = <<>>
                 THEN Effects(TRUE, "empty", clean, <<>>, <<>>, el.value, clip, <<>>)
                 ELSE Effects(enigo_ok, "enigo", clean, text_to_inject,
                              IF enigo_ok THEN inject_keyboard_unicode(text_to_inject).events
                              ELSE <<>>,
                              el.value, clip, << "enigo" >>)

\* TextInjector::inject: the platform module the build was compiled with;
\* os_ok is the outcome of the fallible call (the clipboard on Windows, enigo
\* on macOS)
platform_inject(platform, text, allow_commands, shortcuts, disable_punctuation, title, el, clip, os_ok) ==
    IF platform = "macos"
    THEN inject_macos(text, allow_commands, shortcuts, disable_punctuation, el, clip, os_ok)
    ELSE inject(text, allow_commands, shortcuts, disable_punctuation, title, el, clip, os_ok)

\* the mutant of InjectorInject: a text whose inject failed is tried again
InjectorInjectRetrying(os_ok) ==
    /\ threads.injector = "running"
    /\ inj_pc = "inject"
    /\ LET e == platform_inject(config.platform, inj_cur.text, settings.allow_commands,
                                settings.shortcuts, inj_cur.punctuations_disabled,
                                window_title, focused, clipboard, os_ok)
       IN  /\ os_events' = os_events \o e.events
           /\ focused' = [focused EXCEPT !.value = e.value]
           /\ clipboard' = e.clipboard
           /\ injectLog' = Append(injectLog,
                  [seg |-> inj_cur.seg, received |-> inj_cur.received, text |-> inj_cur.text,
                   auto_space |-> inj_cur.auto_space,
                   allow_commands |-> settings.allow_commands,
                   disable_punctuation |-> inj_cur.punctuations_disabled,
                   shortcuts |-> settings.shortcuts,
                   title |-> window_title,
                   editable |-> is_editable_element(focused),
                   value_before |-> focused.value,
                   clipboard_before |-> clipboard,
                   error_logged |-> ~e.ok,
                   effects |-> e])
    /\ inj_pc' = IF platform_inject(config.platform, inj_cur.text, settings.allow_commands,
                                    settings.shortcuts, inj_cur.punctuations_disabled,
                                    window_title, focused, clipboard, os_ok).ok
                 THEN "recv" ELSE "inject"
    /\ inj_cur' = inj_cur
    /\ UNCHANGED <<segVars, chanVars, settings, persisted, window_title, observer, sysVars,
                   drainLog, handed, rmsLog, prevState, transcribeLog, commandLog, resampleLog, captureLog, ctl>>

\* ... then injector.inject(&text, commands_enabled, &current_shortcuts, punctuations_disabled)
\* with if let Err(e) = ... { error!(...) }; then the next recv
InjectorCall(os_ok) ==
    /\ threads.injector = "running"
    /\ inj_pc = "inject"
    /\ LET e == platform_inject(config.platform, inj_cur.text, settings.allow_commands,
                                settings.shortcuts, inj_cur.punctuations_disabled,
                                window_title, focused, clipboard, os_ok)
       IN  /\ os_events' = os_events \o e.events
           /\ focused' = [focused EXCEPT !.value = e.value]
           /\ clipboard' = e.clipboard
           /\ injectLog' = Append(injectLog,
                  [seg |-> inj_cur.seg, received |-> inj_cur.received, text |-> inj_cur.text,
                   auto_space |-> inj_cur.auto_space,
                   allow_commands |-> settings.allow_commands,
                   disable_punctuation |-> inj_cur.punctuations_disabled,
                   shortcuts |-> settings.shortcuts,
                   title |-> window_title,
                   editable |-> is_editable_element(focused),
                   value_before |-> focused.value,
                   clipboard_before |-> clipboard,
                   error_logged |-> ~e.ok,
                   effects |-> e])
    /\ inj_pc' = "recv"
    /\ inj_cur' = inj_cur
    /\ UNCHANGED <<segVars, chanVars, settings, persisted, window_title, observer, sysVars,
                   drainLog, handed, rmsLog, prevState, transcribeLog, commandLog, resampleLog, captureLog>>

\* shortcuts_clone.read() is granted when no writer holds the table; the read
\* hold lasts for the inject call and is given up at the end of the loop body
InjectorInject(os_ok) ==
    /\ ctl.writers = {}
    /\ InjectorCall(os_ok)
    /\ UNCHANGED ctl

(***************************************************************************)
(* Settings: SettingsManager and the control commands                      *)
(***************************************************************************)
\* the default silence timeout, 500 ms in the code, is the stop window that
\* EnergyVad::new is given; both are StopWindowFrames frames here
DefaultTimeoutMs == StopWindowFrames * FRAME_SIZE_MS

DefaultSettings ==
    [auto_space |-> TRUE, silence_timeout |-> DefaultTimeoutMs, allow_commands |-> TRUE,
     disable_punctuation |-> FALSE, shortcuts |-> DefaultShortcuts]

NoFile == <<>>

\* the mutant of load: the file is not read, the defaults are returned
load_defaults(file) == [settings |-> DefaultSettings, file |-> << DefaultSettings >>]

\* SettingsManager::load: the record parsed from settings.json; with no file,
\* the defaults, which are then saved
load(file) ==
    IF file = NoFile
    THEN [settings |-> DefaultSettings, file |-> << DefaultSettings >>]
    ELSE [settings |-> file[1], file |-> file]

\* SettingsManager::save: settings.json is rewritten with the record
save(file, record) == << record >>

\* HashMap::insert and HashMap::remove
MapInsert(m, k, v) == [x \in DOMAIN m \cup {k} |-> IF x = k THEN v ELSE m[x]]
MapRemove(m, k) == [x \in DOMAIN m \ {k} |-> m[x]]

\* the body shared by the six mutators: store into the cell, then
\* mgr.load(), set the field, mgr.save(&current)
StoreAndPersist(field, value, call) ==
    /\ settings' = [settings EXCEPT ![field] = value]
    /\ persisted' = LET loaded  == load(persisted)
                        current == [loaded.settings EXCEPT ![field] = value]
                    IN  save(loaded.file, current)
    /\ commandLog' = Append(commandLog, call)
    /\ UNCHANGED <<segVars, chanVars, injVars, window_title, focused, osVars, observer,
                   sysVars, drainLog, handed, rmsLog, prevState, transcribeLog, injectLog,
                   resampleLog, captureLog, ctl>>

set_auto_space(state) ==
    StoreAndPersist("auto_space", state,
                    [command |-> "set_auto_space", state |-> state])

set_silence_timeout(ms) ==
    StoreAndPersist("silence_timeout", ms,
                    [command |-> "set_silence_timeout", ms |-> ms])

set_allow_commands(state) ==
    StoreAndPersist("allow_commands", state,
                    [command |-> "set_allow_commands", state |-> state])

set_disable_punctuation(state) ==
    StoreAndPersist("disable_punctuation", state,
                    [command |-> "set_disable_punctuation", state |-> state])

upsert_shortcut(key, value) ==
    LET current_shortcuts == MapInsert(settings.shortcuts, to_lowercase(key), value)
    IN  StoreAndPersist("shortcuts", current_shortcuts,
                        [command |-> "upsert_shortcut", key |-> key, value |-> value])

delete_shortcut(key) ==
    LET current_shortcuts == MapRemove(settings.shortcuts, to_lowercase(key))
    IN  StoreAndPersist("shortcuts", current_shortcuts,
                        [command |-> "delete_shortcut", key |-> key])

(***************************************************************************)
(* Environments                                                            *)
(***************************************************************************)
Element(name, ct, class, focusable, has_value, readonly, has_text, set_ok) ==
    [present |-> TRUE, name |-> name, control_type |-> ct, class_name |-> class,
     keyboard_focusable |-> focusable, has_value_pattern |-> has_value,
     readonly |-> readonly, has_text_pattern |-> has_text,
     set_value_ok |-> set_ok, value |-> <<>>]

\* a control type outside the whitelist: 50000 is UIA_ButtonControlTypeId
OtherControlType == UIA_EditControlTypeId - 4

C_Edit   == << "E", "d", "i", "t" >>
C_Button == << "B", "u", "t", "t", "o", "n" >>
C_Chrome == << "C", "h", "r", "o", "m", "e", "_", "R", "e", "n", "d", "e", "r", "W", "i", "d", "g", "e", "t", "H", "o", "s", "t", "H", "W", "N", "D" >>
C_None   == <<>>

\* a text box of a native application
EditBox == Element(<<>>, UIA_EditControlTypeId, C_Edit, TRUE, TRUE, "false", TRUE, TRUE)
\* a push button
ButtonEl == Element(<< "O", "K" >>, OtherControlType, C_Button, TRUE, FALSE, "err", FALSE, FALSE)
\* the page of a browser tab, focus not in a text field
Viewport == Element(<< "I", "n", "b", "o", "x" >>, UIA_DocumentControlTypeId, C_Chrome, TRUE, FALSE, "err", TRUE, FALSE)
\* a group that exposes a settable value
GroupValue == Element(<< "V", "o", "l", "u", "m", "e" >>, UIA_GroupControlTypeId, C_None, TRUE, TRUE, "false", FALSE, TRUE)

\* a text box without a ValuePattern (a rich edit control)
RichEdit == Element(<<>>, UIA_EditControlTypeId, C_Edit, TRUE, FALSE, "err", TRUE, FALSE)

InjectElements == { EditBox, RichEdit, ButtonEl, Viewport, GroupValue }

Title_VSCode  == << "m", "a", "i", "n", ".", "r", "s", " ", "-", " ", "V", "i", "s", "u", "a", "l", " ", "S", "t", "u", "d", "i", "o", " ", "C", "o", "d", "e" >>
Title_Chrome  == << "I", "n", "b", "o", "x", " ", "-", " ", "G", "o", "o", "g", "l", "e", " ", "C", "h", "r", "o", "m", "e" >>
Title_Notepad == << "U", "n", "t", "i", "t", "l", "e", "d", " ", "-", " ", "N", "o", "t", "e", "p", "a", "d" >>
Title_Docs    == << "N", "o", "t", "e", "s", " ", "-", " ", "G", "o", "o", "g", "l", "e", " ", "D", "o", "c", "s", " ", "-", " ", "G", "o", "o", "g", "l", "e", " ", "C", "h", "r", "o", "m", "e" >>

Title_Antigravity == << "l", "i", "b", ".", "r", "s", " ", "-", " ", "A", "n", "t", "i", "g", "r", "a", "v", "i", "t", "y" >>

Titles == { Title_VSCode, Title_Antigravity, Title_Chrome, Title_Notepad, Title_Docs }


(***************************************************************************)
(* Initial states                                                          *)
(***************************************************************************)
SegInit ==
    /\ vad = EnergyVadNew(VAD_START_THRESHOLD, VAD_STOP_THRESHOLD,
                          StartWindowFrames * FRAME_SIZE_MS,
                          StopWindowFrames * FRAME_SIZE_MS, FRAME_SIZE_MS)
    /\ pre_roll_buffer = <<>>
    /\ voice_buffer = <<>>
    /\ last_state = "Silence"

InjInit ==
    /\ inj_pc = "recv"
    /\ inj_cur = [seg |-> 0, received |-> <<>>, text |-> <<>>, auto_space |-> FALSE,
                  punctuations_disabled |-> FALSE]

OsInit ==
    /\ os_events = <<>>
    /\ clipboard = <<>>

\* the cells hold what mgr.load() returned from settings.json, and the
\* segmenter's current_timeout is saved_settings.silence_timeout
LoadedInit ==
    /\ persisted = << settings >>
    /\ current_timeout = settings.silence_timeout

\* every thread is running on Windows, with the pre-roll and the ring of the
\* bounds, and nothing captured yet
SysInit ==
    /\ config = [platform |-> "windows", pre_roll_frames |-> PreRollFrames,
                 capacity |-> RingCapacity]
    /\ threads = [start_engine |-> "Ok", fault |-> "none", segmenter |-> "running",
                  transcriber |-> "running", injector |-> "running"]
    /\ staging = <<>>
    /\ captureLog = <<>>
    /\ ctl = CtlIdle

HistInit ==
    /\ resampleLog = <<>>
    /\ drainLog = <<>>
    /\ handed = <<>>
    /\ rmsLog = <<>>
    /\ prevState = "Silence"
    /\ transcribeLog = <<>>
    /\ injectLog = <<>>
    /\ commandLog = <<>>

(***************************************************************************)
(* Spec: the pipeline, segmenter -> transcriber -> injector                *)
(***************************************************************************)
Init ==
    /\ SegInit /\ InjInit /\ OsInit /\ HistInit
    /\ audio_chan = <<>>
    /\ text_chan = <<>>
    /\ observer = <<>>
    /\ settings = DefaultSettings
    /\ window_title = Title_Notepad
    /\ focused = EditBox
    /\ LoadedInit
    /\ SysInit

Tick ==
    \/ \E a \in FrameAmps, resample_ok \in BOOLEAN :
          /\ Len(drainLog) < MaxFrames
          /\ SegmenterTick(MakeFrame(Len(drainLog) + 1, a), resample_ok)
    \/ SegmenterTick(<<>>, TRUE)

Transcribe ==
    \E inference_ok \in BOOLEAN, full_text \in WhisperOutputs :
        TranscriberStep(inference_ok, full_text)

Inject == \E clip_ok \in BOOLEAN : InjectorInject(clip_ok)

Next == Tick \/ Transcribe \/ InjectorRecv \/ Inject

Spec == Init /\ [][Next]_vars

(***************************************************************************)
(* SpecVad: EnergyVad alone, any windows, any sequence of process calls    *)
(***************************************************************************)
MaxWindowFrames == 3
MaxVadCalls     == 5
TestFrameMs     == 10       \* the frame of test_state_transitions

\* <<start_threshold, stop_threshold>>: with hysteresis, and inverted
VadThresholdChoices == { <<8, 5>>, <<5, 8>> }

\* below, at, between, at and above the thresholds
RmsValues == {4, 5, 6, 8, 9}

IdlePipeline ==
    /\ InjInit /\ OsInit
    /\ audio_chan = <<>>
    /\ text_chan = <<>>
    /\ observer = <<>>
    /\ settings = DefaultSettings
    /\ window_title = Title_Notepad
    /\ focused = EditBox
    /\ LoadedInit
    /\ SysInit

InitVad ==
    /\ \E th \in VadThresholdChoices, s \in 1..MaxWindowFrames, t \in 1..MaxWindowFrames :
          vad = EnergyVadNew(th[1], th[2], s * TestFrameMs, t * TestFrameMs, TestFrameMs)
    /\ pre_roll_buffer = <<>>
    /\ voice_buffer = <<>>
    /\ last_state = "Silence"
    /\ HistInit
    /\ IdlePipeline

\* vad.process(rms)
VadProcess(rms) ==
    /\ Len(rmsLog) < MaxVadCalls
    /\ vad' = process(vad, rms)
    /\ rmsLog' = Append(rmsLog, rms)
    /\ prevState' = vad.current_state
    /\ UNCHANGED <<pre_roll_buffer, voice_buffer, last_state, current_timeout,
                   chanVars, injVars, envVars, sysVars,
                   osVars, observer, drainLog, handed, transcribeLog, injectLog, commandLog, resampleLog, captureLog, ctl>>

NextVad == \E rms \in RmsValues : VadProcess(rms)

SpecVad == InitVad /\ [][NextVad]_vars

(***************************************************************************)
(* SpecHistory: EnergyVad under process calls and stop-window updates       *)
(***************************************************************************)
MaxHistoryCalls == 4

HistoryRms == {4, 6, 9}

InitHistory ==
    /\ \E s \in 1..MaxWindowFrames, t \in 1..MaxWindowFrames :
          vad = EnergyVadNew(VAD_START_THRESHOLD, VAD_STOP_THRESHOLD,
                             s * TestFrameMs, t * TestFrameMs, TestFrameMs)
    /\ pre_roll_buffer = <<>>
    /\ voice_buffer = <<>>
    /\ last_state = "Silence"
    /\ HistInit
    /\ IdlePipeline

HistoryProcess ==
    \E rms \in HistoryRms :
        /\ Len(rmsLog) < MaxHistoryCalls
        /\ VadProcess(rms)

\* vad.update_stop_window(ms, frame_ms) with a window other than the current one
VadUpdateStopWindow(frames) ==
    /\ frames # vad.stop_window_frames
    /\ vad' = update_stop_window(vad, frames * TestFrameMs, TestFrameMs)
    /\ UNCHANGED <<pre_roll_buffer, voice_buffer, last_state, current_timeout,
                   chanVars, injVars, envVars, sysVars, osVars, observer, histVars, captureLog, ctl>>

HistoryUpdate == \E frames \in 1..MaxWindowFrames : VadUpdateStopWindow(frames)

NextHistory == HistoryProcess \/ HistoryUpdate

SpecHistory == InitHistory /\ [][NextHistory]_vars

(***************************************************************************)
(* SpecStart: start_engine with each initialization step failing or not,    *)
(* followed by whatever of the pipeline is running                          *)
(***************************************************************************)
MaxStartFrames == 5

\* the initialization steps that can fail, in the order run_engine_loop and
\* the threads it spawns reach them
InitFaults == {"none", "model", "injector", "transcriber", "device", "format", "resampler"}

\* the state of the threads after start_engine has returned and every
\* initialization step has been reached
StartedThreads(fault) ==
    [start_engine |-> "Ok",
     fault        |-> fault,
     segmenter    |-> IF fault \in {"model", "device", "format", "resampler"}
                      THEN "crashed" ELSE "running",
     transcriber  |-> IF fault = "model" THEN "not_started"
                      ELSE IF fault \in {"transcriber", "device", "format", "resampler"}
                      THEN "exited" ELSE "running",
     injector     |-> IF fault = "model" THEN "not_started"
                      ELSE IF fault \in {"injector", "transcriber", "device", "format",
                                         "resampler"}
                      THEN "exited" ELSE "running"]

InitStart ==
    /\ SegInit /\ InjInit /\ OsInit /\ HistInit
    /\ audio_chan = <<>>
    /\ text_chan = <<>>
    /\ observer = <<>>
    /\ settings = DefaultSettings
    /\ window_title = Title_Notepad
    /\ focused = EditBox
    /\ LoadedInit
    /\ config = [platform |-> "windows", pre_roll_frames |-> PreRollFrames,
                 capacity |-> RingCapacity]
    /\ threads = [start_engine |-> "not_called", fault |-> "none",
                  segmenter |-> "not_started", transcriber |-> "not_started",
                  injector |-> "not_started"]
    /\ staging = <<>>
    /\ captureLog = <<>>
    /\ ctl = CtlIdle

\* start_engine spawns run_engine_loop and returns Ok(()); run_engine_loop's
\* error is logged by the spawned thread
start_engine(fault) ==
    /\ threads.start_engine = "not_called"
    /\ threads' = StartedThreads(fault)
    /\ UNCHANGED <<segVars, chanVars, injVars, envVars, osVars, observer, histVars,
                   config, staging, captureLog, ctl>>

TickStart ==
    \/ \E a \in FrameAmps, resample_ok \in BOOLEAN :
          /\ Len(drainLog) < MaxStartFrames
          /\ SegmenterTick(MakeFrame(Len(drainLog) + 1, a), resample_ok)
    \/ SegmenterTick(<<>>, TRUE)

NextStart ==
    \/ \E fault \in InitFaults : start_engine(fault)
    \/ TickStart
    \/ Transcribe
    \/ InjectorRecv
    \/ Inject

SpecStart == InitStart /\ [][NextStart]_vars

(***************************************************************************)
(* SpecShutdown: the pipeline with the engine loop ending at any moment,    *)
(* which drops the sender of the segment channel; FairShutdown adds that a  *)
(* worker thread that can take a step is eventually scheduled               *)
(***************************************************************************)
MaxShutdownFrames == 8

\* tx_audio is owned by run_engine_loop, tx_text by the transcriber thread
AudioSenderDropped == threads.segmenter \in {"exited", "crashed"}
TextSenderDropped  == threads.transcriber = "exited"

TickShutdown ==
    \/ \E a \in {4, 9} :
          /\ Len(drainLog) < MaxShutdownFrames
          /\ SegmenterTick(MakeFrame(Len(drainLog) + 1, a), TRUE)
    \/ SegmenterTick(<<>>, TRUE)

\* run_engine_loop ends: its locals, tx_audio among them, are dropped
SegmenterStop ==
    /\ threads.segmenter = "running"
    /\ threads' = [threads EXCEPT !.segmenter = "exited"]
    /\ UNCHANGED <<segVars, chanVars, injVars, envVars, osVars, observer, histVars,
                   config, staging, captureLog, ctl>>

\* the mutant of TranscriberExit: the loop ends as soon as the sender is gone
TranscriberExitAtOnce ==
    /\ threads.transcriber = "running"
    /\ AudioSenderDropped
    /\ threads' = [threads EXCEPT !.transcriber = "exited"]
    /\ UNCHANGED <<segVars, chanVars, injVars, envVars, osVars, observer, histVars,
                   config, staging, captureLog, ctl>>

\* rx.recv() is an Err once the channel is empty and its sender is dropped:
\* run breaks out of its loop and returns, which drops tx_text
TranscriberExit ==
    /\ threads.transcriber = "running"
    /\ audio_chan = <<>>
    /\ AudioSenderDropped
    /\ threads' = [threads EXCEPT !.transcriber = "exited"]
    /\ UNCHANGED <<segVars, chanVars, injVars, envVars, osVars, observer, histVars,
                   config, staging, captureLog, ctl>>

\* while let Ok(text) = rx_text.recv() ends on the Err of an empty channel
\* whose sender is dropped
InjectorExit ==
    /\ threads.injector = "running"
    /\ inj_pc = "recv"
    /\ text_chan = <<>>
    /\ TextSenderDropped
    /\ threads' = [threads EXCEPT !.injector = "exited"]
    /\ UNCHANGED <<segVars, chanVars, injVars, envVars, osVars, observer, histVars,
                   config, staging, captureLog, ctl>>

NextShutdown ==
    \/ TickShutdown
    \/ SegmenterStop
    \/ Transcribe
    \/ TranscriberExit
    \/ InjectorRecv
    \/ Inject
    \/ InjectorExit

SpecShutdown == Init /\ [][NextShutdown]_vars

\* the steps of the transcriber thread and of the injector thread
TranscriberThread == Transcribe \/ TranscriberExit
InjectorThread    == InjectorRecv \/ Inject \/ InjectorExit

\* a thread that is not blocked in recv is eventually scheduled, and inference
\* and injection return
FairShutdown ==
    SpecShutdown /\ WF_vars(TranscriberThread) /\ WF_vars(InjectorThread)

(***************************************************************************)
(* SpecRing: the capture callback filling the staging ring and the engine   *)
(* loop draining it.  A callback of several frames is a run of pushes; the  *)
(* callbacks of one frame give every interleaving of single pushes with the *)
(* drain.                                                                   *)
(***************************************************************************)
RINGBUF_SIZE == 16000 * 10

MaxCallbacks == 3
MaxCallbackFrames == 2
MaxPulls == 2

\* the mono sample of one interleaved frame
MonoSample(frame, channels) ==
    IF channels = 2 THEN (frame[1] + frame[2]) \div 2 ELSE frame[1]

\* the samples callback number n offers to the ring, one per input.chunks(channels)
MonoMix(n, input, channels) ==
    LET frames == Chunks(input, channels)
    IN  [i \in 1..Len(frames) |-> << n, i, MonoSample(frames[i], channels) >>]

RECURSIVE write_f32_overwriting(_, _, _)
\* the mutant of write_f32: a full ring gives up its oldest sample
write_f32_overwriting(ring, samples, capacity) ==
    IF samples = <<>> THEN ring
    ELSE write_f32_overwriting(
             IF Len(ring) < capacity THEN Append(ring, Head(samples))
             ELSE Append(Tail(ring), Head(samples)),
             Tail(samples), capacity)

RECURSIVE write_f32(_, _, _)
\* for each sample: if producer.push(sample).is_err() {} -- push fails on a full ring
write_f32(ring, samples, capacity) ==
    IF samples = <<>> THEN ring
    ELSE write_f32(
             IF Len(ring) < capacity THEN Append(ring, Head(samples)) ELSE ring,
             Tail(samples), capacity)

Pushes == SelectSeq(captureLog, LAMBDA r : r.op = "push")
Pulls  == SelectSeq(captureLog, LAMBDA r : r.op = "pull")

\* the interleaved input of a callback: n frames of one value per channel
CallbackInputs(channels) ==
    UNION { { [i \in 1..(n * channels) |-> frame[((i - 1) % channels) + 1]] :
              frame \in [1..channels -> {4, 10}] } : n \in 1..MaxCallbackFrames }

InitRing ==
    /\ SegInit /\ InjInit /\ OsInit /\ HistInit
    /\ audio_chan = <<>>
    /\ text_chan = <<>>
    /\ observer = <<>>
    /\ settings = DefaultSettings
    /\ window_title = Title_Notepad
    /\ focused = EditBox
    /\ LoadedInit
    /\ \E channels \in {1, 2} :
           config = [platform |-> "windows", pre_roll_frames |-> PreRollFrames,
                     capacity |-> RingCapacity, channels |-> channels]
    /\ threads = [start_engine |-> "Ok", fault |-> "none", segmenter |-> "running",
                  transcriber |-> "running", injector |-> "running"]
    /\ staging = <<>>
    /\ captureLog = <<>>
    /\ ctl = CtlIdle

\* the input stream's data callback
CaptureCallback(input) ==
    /\ Len(Pushes) < MaxCallbacks
    /\ LET samples == MonoMix(Len(Pushes) + 1, input, config.channels)
           after   == write_f32(staging, samples, config.capacity)
       IN  /\ staging' = after
           /\ captureLog' = Append(captureLog,
                  [op |-> "push", input |-> samples, before |-> staging, after |-> after])
    /\ UNCHANGED <<segVars, chanVars, injVars, envVars, osVars, observer, histVars,
                   config, threads, ctl>>

\* one turn of the engine loop: everything available is popped, then processed
Drain ==
    /\ SegmenterDrain(staging, TRUE)
    /\ staging' = <<>>
    /\ captureLog' = Append(captureLog,
           [op |-> "pull", input |-> staging, before |-> staging, after |-> <<>>])
    /\ UNCHANGED ctl

Pull == Len(Pulls) < MaxPulls /\ Drain

NextRing ==
    \/ \E input \in CallbackInputs(config.channels) : CaptureCallback(input)
    \/ Pull

SpecRing == InitRing /\ [][NextRing]_vars

(***************************************************************************)
(* SpecStall: the capture callback delivering loud frames and then nothing, *)
(* the engine loop ticking on                                               *)
(***************************************************************************)
MaxStallPulls == 5
MaxStallCallbacks == 2

\* a callback of one tick's worth of loud mono samples
LoudCallback ==
    /\ Len(Pushes) < MaxStallCallbacks
    /\ CaptureCallback([i \in 1..(FrameLen * config.channels) |-> 10])

StallPull == Len(Pulls) < MaxStallPulls /\ Drain

NextStall == LoudCallback \/ StallPull

SpecStall == InitRing /\ [][NextStall]_vars

(***************************************************************************)
(* SpecConvert: one device frame of each sample format through its capture  *)
(* callback.  A pushed f32 is held as an integer number of 1/65536; every   *)
(* value the conversions produce is a multiple of 2^-16 of magnitude at     *)
(* most 1, which an f32 holds exactly.                                      *)
(***************************************************************************)
F32_ONE == 65536

I16_MIN == -32768
I16_MAX == 32767
U16_MAX == 65535

\* v / 32768.0 for an f32 v holding an integer: a step of 1 in v is a step
\* of 2 / 65536 in the quotient
Div32768(v) == v * (F32_ONE \div 32768)

\* the mutant of i16_to_f32: no division, the integer is taken as the value
i16_to_f32_unscaled(x) == x

\* frame[0] as f32 / 32768.0
i16_to_f32(x) == Div32768(x)

\* (frame[0] as f32 - 32768.0) / 32768.0
u16_to_f32(x) == Div32768(x - 32768)

\* (a + b) / 2.0
F32Mean(a, b) == (a + b) \div 2

\* the sample write_f32, write_i16 or write_u16 pushes for one device frame
ConvertFrame(format, frame, channels) ==
    LET value(x) == IF format = "i16" THEN i16_to_f32(x)
                    ELSE IF format = "u16" THEN u16_to_f32(x)
                    ELSE x
    IN  IF channels = 2 THEN F32Mean(value(frame[1]), value(frame[2]))
        ELSE value(frame[1])

\* the values a stereo frame is made of
I16Corners == {I16_MIN, I16_MIN + 1, -1, 0, 1, I16_MAX}
U16Corners == {0, 1, 32767, 32768, 32769, U16_MAX}
F32Corners == {-F32_ONE, -2, 0, 2, F32_ONE}

DeviceFrames(format, channels) ==
    IF channels = 1
    THEN { << x >> : x \in IF format = "i16" THEN I16_MIN..I16_MAX
                           ELSE IF format = "u16" THEN 0..U16_MAX
                           ELSE F32Corners }
    ELSE LET corners == IF format = "i16" THEN I16Corners
                        ELSE IF format = "u16" THEN U16Corners
                        ELSE F32Corners
         IN  { << l, r >> : l \in corners, r \in corners }

\* the data callback of the stream built for `format`, on one frame
ConvertCallback(format, frame) ==
    /\ captureLog = <<>>
    /\ ctl = CtlIdle
    /\ LET sample == << 1, 1, ConvertFrame(format, frame, config.channels) >>
           after  == write_f32(staging, << sample >>, config.capacity)
       IN  /\ staging' = after
           /\ captureLog' = << [op |-> "push", format |-> format, frame |-> frame,
                                input |-> << sample >>, before |-> staging,
                                after |-> after] >>
    /\ UNCHANGED <<segVars, chanVars, injVars, envVars, osVars, observer, histVars,
                   config, threads, ctl>>

NextConvert ==
    /\ captureLog = <<>>
    /\ ctl = CtlIdle
    /\ \E format \in {"f32", "i16", "u16"} :
           \E frame \in DeviceFrames(format, config.channels) :
               ConvertCallback(format, frame)

SpecConvert == InitRing /\ [][NextConvert]_vars

(***************************************************************************)
(* SpecResample: the hand-off of one segment to AudioResampler::resample,   *)
(* for every segment of a few samples and every set of failing pieces       *)
(***************************************************************************)
MaxSegmentLen == 5

\* the pieces a segment of MaxSegmentLen samples is cut into
MaxPieces == (MaxSegmentLen + chunk_size - 1) \div chunk_size

SegmentsToResample ==
    UNION { { [i \in 1..n |-> << 1, i, amps[i] >>] : amps \in [1..n -> {4, 9}] } :
            n \in 1..MaxSegmentLen }

\* speech has just ended with this segment in the accumulator
InitResample ==
    /\ SegInit /\ InjInit /\ OsInit /\ HistInit
    /\ audio_chan = <<>>
    /\ text_chan = <<>>
    /\ observer = <<>>
    /\ settings = DefaultSettings
    /\ window_title = Title_Notepad
    /\ focused = EditBox
    /\ LoadedInit
    /\ SysInit

\* if let Ok(resampled) = resampler.resample(&voice_buffer) { send }; clear
ResampleSegment(segment, fails) ==
    /\ resampleLog = <<>>
    /\ LET r == resample_with(segment, fails)
       IN  /\ resampleLog' = << [input |-> segment, fails |-> fails, ok |-> r.ok,
                                 calls |-> r.calls, output |-> r.output] >>
           /\ handed' = Append(handed, segment)
           /\ audio_chan' = IF r.ok /\ threads.transcriber = "running"
                            THEN ChanSend(audio_chan, [seg |-> Len(handed) + 1, data |-> r.output])
                            ELSE audio_chan
    /\ voice_buffer' = <<>>
    /\ UNCHANGED <<vad, pre_roll_buffer, last_state, current_timeout, text_chan, injVars,
                   envVars, osVars, observer, sysVars, drainLog, rmsLog, prevState,
                   transcribeLog, injectLog, commandLog, captureLog, ctl>>

NextResample ==
    \E segment \in SegmentsToResample, fails \in SUBSET (1..MaxPieces) :
        ResampleSegment(segment, fails)

SpecResample == InitResample /\ [][NextResample]_vars

(***************************************************************************)
(* SpecInject: the injector thread on two queued texts, for every setting  *)
(* of the flags, every window and every focused element                    *)
(***************************************************************************)
K_erase   == << "e", "r", "a", "s", "e" >>
K_my_mail == << "m", "y", " ", "m", "a", "i", "l" >>
V_mail    == << "a", "@", "b", ".", "c" >>

\* the default table after upsert_shortcut("erase", "[DELETE]") and
\* upsert_shortcut("my mail", "a@b.c")
ExtendedShortcuts ==
    [k \in DOMAIN DefaultShortcuts \cup {K_erase, K_my_mail} |->
        IF k = K_erase THEN T_DELETE
        ELSE IF k = K_my_mail THEN V_mail
        ELSE DefaultShortcuts[k]]

X_delete      == << "d", "e", "l", "e", "t", "e" >>
X_DeleteBang  == << "D", "e", "l", "e", "t", "e", "!" >>
X_delete_dot  == << "d", "e", "l", "e", "t", "e", "." >>
X_hello_world == << "h", "e", "l", "l", "o", ",", " ", "w", "o", "r", "l", "d", "!", "!" >>
X_dont        == << "d", "o", "n", "'", "t" >>
X_x           == << "x" >>
X_delete_that == << "D", "e", "l", "e", "t", "e", " ", "t", "h", "a", "t" >>
X_erase       == << "e", "r", "a", "s", "e" >>
X_my_mail     == << "M", "y", " ", "m", "a", "i", "l" >>
X_fn_main     == << "f", "n", " ", "m", "a", "i", "n" >>

\* texts as the transcriber sends them: trimmed and not empty
InjectTexts ==
    { X_delete, X_DeleteBang, X_delete_dot, X_hello_world, X_dont, X_x,
      X_delete_that, X_erase, X_my_mail, X_fn_main }

InitInject ==
    /\ SegInit /\ InjInit /\ OsInit /\ HistInit
    /\ audio_chan = <<>>
    /\ observer = <<>>
    /\ \E t1 \in InjectTexts, t2 \in InjectTexts :
          text_chan = << [seg |-> 1, text |-> t1], [seg |-> 2, text |-> t2] >>
    /\ \E a \in BOOLEAN, c \in BOOLEAN, p \in BOOLEAN :
          settings = [auto_space |-> a, silence_timeout |-> DefaultTimeoutMs,
                      allow_commands |-> c, disable_punctuation |-> p,
                      shortcuts |-> ExtendedShortcuts]
    /\ window_title \in Titles
    /\ focused \in InjectElements
    /\ LoadedInit
    /\ SysInit

NextInject == InjectorRecv \/ Inject

SpecInject == InitInject /\ [][NextInject]_vars

(***************************************************************************)
(* SpecInjectMac: the injector thread of the macOS build on two queued      *)
(* texts, each enigo call failing or not                                    *)
(***************************************************************************)
MacTexts == { X_delete, X_hello_world, X_x, X_delete_that }

InitInjectMac ==
    /\ SegInit /\ InjInit /\ OsInit /\ HistInit
    /\ audio_chan = <<>>
    /\ observer = <<>>
    /\ \E t1 \in MacTexts, t2 \in MacTexts :
          text_chan = << [seg |-> 1, text |-> t1], [seg |-> 2, text |-> t2] >>
    /\ \E a \in BOOLEAN, c \in BOOLEAN, p \in BOOLEAN :
          settings = [auto_space |-> a, silence_timeout |-> DefaultTimeoutMs,
                      allow_commands |-> c, disable_punctuation |-> p,
                      shortcuts |-> DefaultShortcuts]
    /\ window_title = Title_Notepad
    /\ focused = EditBox
    /\ LoadedInit
    /\ config = [platform |-> "macos", pre_roll_frames |-> PreRollFrames,
                 capacity |-> RingCapacity]
    /\ threads = [start_engine |-> "Ok", fault |-> "none", segmenter |-> "running",
                  transcriber |-> "running", injector |-> "running"]
    /\ staging = <<>>
    /\ captureLog = <<>>
    /\ ctl = CtlIdle

NextInjectMac == InjectorRecv \/ Inject

SpecInjectMac == InitInjectMac /\ [][NextInjectMac]_vars

(***************************************************************************)
(* SpecGate: is_editable_element on every combination of attributes        *)
(***************************************************************************)
GateNames ==
    { <<>>, << "O", "K" >>, << "C", "o", "d", "e", " ", "E", "d", "i", "t", "o", "r" >>, << "S", "e", "a", "r", "c", "h", " ", "i", "n", "p", "u", "t" >>, << "D", "o", "c", "u", "m", "e", "n", "t", " ", "c", "o", "n", "t", "e", "n", "t" >>,
      << "C", "o", "m", "p", "o", "s", "e" >>, << "R", "i", "c", "h", " ", "T", "e", "x", "t" >>, << "M", "e", "s", "s", "a", "g", "e", " ", "B", "o", "d", "y" >> }

GateControlTypes ==
    { NoControlType, OtherControlType, UIA_EditControlTypeId,
      UIA_DocumentControlTypeId, UIA_PaneControlTypeId, UIA_GroupControlTypeId }

GateClasses == { C_None, C_Edit, C_Chrome }

NoElement == [Element(<<>>, NoControlType, C_None, FALSE, FALSE, "err", FALSE, FALSE)
                EXCEPT !.present = FALSE]

GateElements ==
    { Element(n, ct, cl, f, hv, ro, ht, FALSE) :
        n \in GateNames, ct \in GateControlTypes, cl \in GateClasses, f \in BOOLEAN,
        hv \in BOOLEAN, ro \in {"true", "false", "err"}, ht \in BOOLEAN }
    \cup { NoElement }

InitGate ==
    /\ SegInit /\ InjInit /\ OsInit /\ HistInit
    /\ audio_chan = <<>>
    /\ text_chan = <<>>
    /\ observer = <<>>
    /\ settings = DefaultSettings
    /\ window_title = Title_Notepad
    /\ focused \in { el \in GateElements : el.has_value_pattern \/ el.readonly = "err" }
    /\ LoadedInit
    /\ SysInit

\* the injector asks whether the focused element is editable
GateQuery ==
    /\ injectLog = <<>>
    /\ injectLog' = << [gate |-> is_editable_element(focused)] >>
    /\ UNCHANGED <<segVars, chanVars, injVars, envVars, osVars, observer, sysVars,
                   drainLog, handed, rmsLog, prevState, transcribeLog, commandLog, resampleLog, captureLog, ctl>>

NextGate == GateQuery

SpecGate == InitGate /\ [][NextGate]_vars

(***************************************************************************)
(* SpecFilter: the transcriber on one segment, for every text the model    *)
(* can return over a small alphabet                                        *)
(***************************************************************************)
MaxTextLen == 4

FilterAlphabet == { "a", " ", "[", "(", "]", ")", "_", "." }

FilterTexts == UNION { [1..n -> FilterAlphabet] : n \in 0..MaxTextLen }

InitFilter ==
    /\ SegInit /\ InjInit /\ OsInit /\ HistInit
    /\ audio_chan = << [seg |-> 1, data |-> resample(MakeFrame(1, 9))] >>
    /\ text_chan = <<>>
    /\ observer = <<>>
    /\ settings = DefaultSettings
    /\ window_title = Title_Notepad
    /\ focused = EditBox
    /\ LoadedInit
    /\ SysInit

\* the model's output is drawn only when a segment is there to be received
NextFilter ==
    /\ audio_chan # <<>>
    /\ \E inference_ok \in BOOLEAN, full_text \in FilterTexts :
          TranscriberStep(inference_ok, full_text)

SpecFilter == InitFilter /\ [][NextFilter]_vars

(***************************************************************************)
(* SpecTimeout: the segmenter while the silence timeout is changed, for    *)
(* every timeout the settings file can hold at engine start                *)
(***************************************************************************)
MaxTimeoutFrames  == 5
MaxTimeoutChanges == 2

\* less than a frame, the default, and a frame more than the default
TimeoutChoices == { FRAME_SIZE_MS \div 3, DefaultTimeoutMs, DefaultTimeoutMs + FRAME_SIZE_MS }

\* a quiet and a loud frame
TimeoutAmps == { 4, 9 }

InitTimeout ==
    /\ SegInit /\ InjInit /\ OsInit /\ HistInit
    /\ audio_chan = <<>>
    /\ text_chan = <<>>
    /\ observer = <<>>
    /\ \E ms \in TimeoutChoices :
          settings = [DefaultSettings EXCEPT !.silence_timeout = ms]
    /\ window_title = Title_Notepad
    /\ focused = EditBox
    /\ LoadedInit
    /\ SysInit

TickTimeout ==
    \/ \E a \in TimeoutAmps :
          /\ Len(drainLog) < MaxTimeoutFrames
          /\ SegmenterTick(MakeFrame(Len(drainLog) + 1, a), TRUE)
    \/ SegmenterTick(<<>>, TRUE)

SetTimeout ==
    \E ms \in TimeoutChoices :
        /\ Len(commandLog) < MaxTimeoutChanges
        /\ set_silence_timeout(ms)

NextTimeout == TickTimeout \/ SetTimeout

SpecTimeout == InitTimeout /\ [][NextTimeout]_vars

(***************************************************************************)
(* SpecSettings: the control commands in any order                         *)
(***************************************************************************)
MaxCommands == 3

CommandKeys == { << "E", "r", "a", "s", "e" >>, << "d", "e", "l", "e", "t", "e" >>, << "M", "y", " ", "M", "a", "i", "l" >> }
CommandValues == { T_DELETE, V_mail }

InitSettings ==
    /\ SegInit /\ InjInit /\ OsInit /\ HistInit
    /\ audio_chan = <<>>
    /\ text_chan = <<>>
    /\ observer = <<>>
    /\ settings \in { DefaultSettings,
                      [DefaultSettings EXCEPT !.auto_space = FALSE,
                                              !.disable_punctuation = TRUE,
                                              !.shortcuts = ExtendedShortcuts] }
    /\ window_title = Title_Notepad
    /\ focused = EditBox
    /\ LoadedInit
    /\ SysInit

Command ==
    /\ Len(commandLog) < MaxCommands
    /\ \/ \E state \in BOOLEAN : set_auto_space(state)
       \/ \E ms \in TimeoutChoices : set_silence_timeout(ms)
       \/ \E state \in BOOLEAN : set_allow_commands(state)
       \/ \E state \in BOOLEAN : set_disable_punctuation(state)
       \/ \E key \in CommandKeys, value \in CommandValues : upsert_shortcut(key, value)
       \/ \E key \in CommandKeys : delete_shortcut(key)

NextSettings == Command

SpecSettings == InitSettings /\ [][NextSettings]_vars

(***************************************************************************)
(* SpecUtterance: the segmenter as run_engine_loop builds it (300 ms start *)
(* window, 500 ms stop window, 500 ms pre-roll, 30 ms frames), fed one      *)
(* frame per tick: silence, then a tone, then silence                       *)
(***************************************************************************)
VAD_START_WINDOW_MS == 300
VAD_STOP_WINDOW_MS  == 500
PRE_ROLL_MS         == 500
SAVED_TIMEOUT_MS    == 500

\* the input: 500 ms of zeros, 1.5 s of tone, 1 s of zeros
LeadMs == 500
ToneMs == 1500
TailMs == 1000

\* 500 ms is 16 frames and a part of a frame: either 16 or 17 frames of zeros
LeadFrames == { LeadMs \div FRAME_SIZE_MS, LeadMs \div FRAME_SIZE_MS + 1 }
ToneFrames == ToneMs \div FRAME_SIZE_MS
TailFrames == (TailMs + FRAME_SIZE_MS - 1) \div FRAME_SIZE_MS

\* just above the start threshold, and the 0.02 of the scenario
ToneAmps == { VAD_START_THRESHOLD + 1, 20 }

InitUtterance ==
    /\ vad = EnergyVadNew(VAD_START_THRESHOLD, VAD_STOP_THRESHOLD,
                          VAD_START_WINDOW_MS, VAD_STOP_WINDOW_MS, FRAME_SIZE_MS)
    /\ pre_roll_buffer = <<>>
    /\ voice_buffer = <<>>
    /\ last_state = "Silence"
    /\ InjInit /\ OsInit /\ HistInit
    /\ audio_chan = <<>>
    /\ text_chan = <<>>
    /\ observer = <<>>
    /\ settings = [DefaultSettings EXCEPT !.silence_timeout = SAVED_TIMEOUT_MS]
    /\ window_title = Title_Notepad
    /\ focused = EditBox
    /\ LoadedInit
    /\ config = [platform |-> "windows", pre_roll_frames |-> PRE_ROLL_MS \div FRAME_SIZE_MS,
                 capacity |-> RingCapacity]
    /\ threads = [start_engine |-> "Ok", fault |-> "none", segmenter |-> "running",
                  transcriber |-> "running", injector |-> "running"]
    /\ staging = <<>>
    /\ captureLog = <<>>
    /\ ctl = CtlIdle

\* the ticks so far that drained a tone frame, and the zero frames before them
ToneTicks == { i \in 1..Len(drainLog) : Amp(drainLog[i].frame[1]) > 0 }
LeadTicks == IF ToneTicks = {} THEN Len(drainLog)
             ELSE (CHOOSE i \in ToneTicks : \A j \in ToneTicks : i <= j) - 1

\* the next frame of the input
UtteranceTick ==
    \E a \in {0} \cup ToneAmps :
        /\ IF ToneTicks = {}
           THEN IF a = 0
                THEN \E l \in LeadFrames : Len(drainLog) < l
                ELSE Len(drainLog) \in LeadFrames
           ELSE IF Cardinality(ToneTicks) < ToneFrames
                THEN a = Amp(drainLog[Len(drainLog)].frame[1])
                ELSE a = 0 /\ Len(drainLog) < LeadTicks + ToneFrames + TailFrames
        /\ SegmenterTick(MakeFrame(Len(drainLog) + 1, a), TRUE)

NextUtterance == UtteranceTick

SpecUtterance == InitUtterance /\ [][NextUtterance]_vars

(***************************************************************************)
(* SpecControl: two control commands running statement by statement, in   *)
(* any interleaving, beside the injector thread on one queued text         *)
(***************************************************************************)
ControlTexts == { X_erase, X_my_mail }
ControlKeys == { << "E", "r", "a", "s", "e" >>, << "M", "y", " ", "M", "a", "i", "l" >> }
ControlCells == { <<"auto_space", FALSE>>, <<"allow_commands", FALSE>>,
                  <<"disable_punctuation", TRUE>>,
                  <<"silence_timeout", DefaultTimeoutMs + FRAME_SIZE_MS>> }

InitControl ==
    /\ SegInit /\ InjInit /\ OsInit /\ HistInit
    /\ audio_chan = <<>>
    /\ observer = <<>>
    /\ \E t \in ControlTexts : text_chan = << [seg |-> 1, text |-> t] >>
    /\ settings = [DefaultSettings EXCEPT !.shortcuts = ExtendedShortcuts]
    /\ window_title = Title_Notepad
    /\ focused = EditBox
    /\ LoadedInit
    /\ SysInit

ControlFrame ==
    UNCHANGED <<segVars, chanVars, injVars, window_title, focused, osVars, observer,
                sysVars, drainLog, handed, rmsLog, prevState, transcribeLog, injectLog,
                resampleLog, captureLog, commandLog>>

\* set_auto_space, set_silence_timeout, set_allow_commands and
\* set_disable_punctuation, first statement: the store into the cell
CmdStore(p, field, value) ==
    /\ ctl.procs[p].pc = "idle"
    /\ settings' = [settings EXCEPT ![field] = value]
    /\ ctl' = [ctl EXCEPT !.procs[p] = [@ EXCEPT !.pc = "load", !.op = "set",
                                                 !.field = field, !.value = value]]
    /\ UNCHANGED persisted
    /\ ControlFrame

\* upsert_shortcut and delete_shortcut are invoked; shortcuts.write() comes next
CmdInvoke(p, op, key, value) ==
    /\ ctl.procs[p].pc = "idle"
    /\ ctl' = [ctl EXCEPT !.procs[p] = [@ EXCEPT !.pc = "lock", !.op = op,
                                                 !.field = "shortcuts",
                                                 !.key = key, !.value = value]]
    /\ UNCHANGED <<settings, persisted>>
    /\ ControlFrame

\* the mutant of CmdWriteLock: the write hold is granted beside a read hold
CmdWriteLockBesideReaders(p) ==
    /\ ctl.procs[p].pc = "lock"
    /\ ctl.writers = {}
    /\ ctl' = [ctl EXCEPT !.writers = {p}, !.procs[p].pc = "modify"]
    /\ UNCHANGED <<settings, persisted>>
    /\ ControlFrame

\* shortcuts.write(): granted when nobody holds the table
CmdWriteLock(p) ==
    /\ ctl.procs[p].pc = "lock"
    /\ ctl.writers = {}
    /\ ctl.readers = {}
    /\ ctl' = [ctl EXCEPT !.writers = {p}, !.procs[p].pc = "modify"]
    /\ UNCHANGED <<settings, persisted>>
    /\ ControlFrame

\* current_shortcuts.insert(key.to_lowercase(), value) or
\* current_shortcuts.remove(&key.to_lowercase())
CmdModify(p) ==
    /\ ctl.procs[p].pc = "modify"
    /\ LET c == ctl.procs[p]
       IN  settings' = [settings EXCEPT !.shortcuts =
                           IF c.op = "upsert"
                           THEN MapInsert(@, to_lowercase(c.key), c.value)
                           ELSE MapRemove(@, to_lowercase(c.key))]
    /\ ctl' = [ctl EXCEPT !.procs[p].pc = "load"]
    /\ UNCHANGED persisted
    /\ ControlFrame

\* let mut current = mgr.load()
CmdLoad(p) ==
    /\ ctl.procs[p].pc = "load"
    /\ LET loaded == load(persisted)
       IN  /\ persisted' = loaded.file
           /\ ctl' = [ctl EXCEPT !.procs[p] = [@ EXCEPT !.pc = "save",
                                                        !.current = loaded.settings]]
    /\ UNCHANGED settings
    /\ ControlFrame

\* the field of current is set and mgr.save(&current) runs; the function
\* returns and, in upsert_shortcut and delete_shortcut, the write hold is dropped
CmdSave(p) ==
    /\ ctl.procs[p].pc = "save"
    /\ LET c == ctl.procs[p]
           current == [c.current EXCEPT ![c.field] =
                          IF c.op = "set" THEN c.value ELSE settings.shortcuts]
       IN  /\ persisted' = save(persisted, current)
           /\ ctl' = [ctl EXCEPT !.writers = @ \ {p},
                                 !.procs[p] = [@ EXCEPT !.pc = "done",
                                                        !.current = current]]
    /\ UNCHANGED settings
    /\ ControlFrame

\* let current_shortcuts = shortcuts_clone.read().unwrap()
InjectBegin ==
    /\ threads.injector = "running"
    /\ inj_pc = "inject"
    /\ "injector" \notin ctl.readers
    /\ ctl.writers = {}
    /\ ctl' = [ctl EXCEPT !.readers = @ \cup {"injector"}, !.held = settings.shortcuts]
    /\ UNCHANGED <<settings, persisted>>
    /\ ControlFrame

\* injector.inject(..) under the read hold, which the end of the loop body drops
InjectEnd(os_ok) ==
    /\ "injector" \in ctl.readers
    /\ InjectorCall(os_ok)
    /\ ctl' = [ctl EXCEPT !.readers = @ \ {"injector"}]

CmdStep(p) ==
    \/ \E cell \in ControlCells : CmdStore(p, cell[1], cell[2])
    \/ \E key \in ControlKeys : CmdInvoke(p, "upsert", key, V_mail)
    \/ \E key \in ControlKeys : CmdInvoke(p, "delete", key, <<>>)
    \/ CmdWriteLock(p)
    \/ CmdModify(p)
    \/ CmdLoad(p)
    \/ CmdSave(p)

NextControl ==
    \/ \E p \in CommandIds : CmdStep(p)
    \/ InjectorRecv
    \/ InjectBegin
    \/ \E os_ok \in BOOLEAN : InjectEnd(os_ok)

SpecControl == InitControl /\ [][NextControl]_vars

(***************************************************************************)
(* SpecSpsc: the capture callback pushing sample by sample while the       *)
(* engine loop reads the ring's length and pops that many samples          *)
(***************************************************************************)
MaxSpscCallbacks == 1
MaxSpscPulls == 2
SpscCapacity == 1       \* RINGBUF_SIZE, 160000 samples in the code

InitSpsc ==
    /\ SegInit /\ InjInit /\ OsInit /\ HistInit
    /\ audio_chan = <<>>
    /\ text_chan = <<>>
    /\ observer = <<>>
    /\ settings = DefaultSettings
    /\ window_title = Title_Notepad
    /\ focused = EditBox
    /\ LoadedInit
    /\ \E channels \in {1, 2} :
           config = [platform |-> "windows", pre_roll_frames |-> PreRollFrames,
                     capacity |-> SpscCapacity, channels |-> channels]
    /\ threads = [start_engine |-> "Ok", fault |-> "none", segmenter |-> "running",
                  transcriber |-> "running", injector |-> "running"]
    /\ staging = <<>>
    /\ captureLog = <<>>
    /\ ctl = CtlIdle

SpscLog(op) == SelectSeq(captureLog, LAMBDA r : r.op = op)

SpscFrame ==
    UNCHANGED <<segVars, chanVars, injVars, envVars, osVars, observer, histVars,
                config, threads>>

\* the data callback is entered: write_f32 is about to push one sample per frame
CallbackBegin(input) ==
    /\ ctl.capture = <<>>
    /\ Len(SpscLog("call")) < MaxSpscCallbacks
    /\ LET samples == MonoMix(Len(SpscLog("call")) + 1, input, config.channels)
       IN  /\ ctl' = [ctl EXCEPT !.capture = samples]
           /\ captureLog' = Append(captureLog, [op |-> "call", input |-> samples])
    /\ UNCHANGED staging
    /\ SpscFrame

\* if producer.push(sample).is_err() {}
PushSample ==
    /\ ctl.capture # <<>>
    /\ LET sample == Head(ctl.capture)
           ok     == Len(staging) < config.capacity
       IN  /\ staging' = IF ok THEN Append(staging, sample) ELSE staging
           /\ captureLog' = Append(captureLog, [op |-> "push", sample |-> sample, ok |-> ok])
    /\ ctl' = [ctl EXCEPT !.capture = Tail(@)]
    /\ SpscFrame

\* buffer.clear(); let available = consumer.len()
DrainBegin ==
    /\ ctl.drain.pc = "idle"
    /\ Len(SpscLog("len")) < MaxSpscPulls
    /\ ctl' = [ctl EXCEPT !.drain = [pc |-> "pop", available |-> Len(staging),
                                     popped |-> 0, buffer |-> <<>>]]
    /\ captureLog' = Append(captureLog, [op |-> "len", available |-> staging])
    /\ UNCHANGED staging
    /\ SpscFrame

\* the mutant of DrainDone: the loop pops until the ring is empty
DrainDoneWhenEmpty == staging = <<>>

\* for _ in 0..available has run out
DrainDone == ctl.drain.popped = ctl.drain.available

\* if let Some(s) = consumer.pop() { buffer.push(s); }
DrainPop ==
    /\ ctl.drain.pc = "pop"
    /\ ~DrainDone
    /\ IF staging = <<>>
       THEN /\ ctl' = [ctl EXCEPT !.drain.popped = @ + 1]
            /\ UNCHANGED staging
       ELSE /\ ctl' = [ctl EXCEPT !.drain.popped = @ + 1,
                                  !.drain.buffer = Append(@, Head(staging))]
            /\ staging' = Tail(staging)
    /\ UNCHANGED captureLog
    /\ SpscFrame

\* the rest of the turn of the loop on what was popped
DrainEnd ==
    /\ ctl.drain.pc = "pop"
    /\ DrainDone
    /\ SegmenterDrain(ctl.drain.buffer, TRUE)
    /\ ctl' = [ctl EXCEPT !.drain.pc = "idle"]
    /\ captureLog' = Append(captureLog, [op |-> "drained", buffer |-> ctl.drain.buffer])
    /\ UNCHANGED staging

SpscInputs(channels) ==
    { [i \in 1..(n * channels) |-> 10] : n \in 1..MaxCallbackFrames }

NextSpsc ==
    \/ \E input \in SpscInputs(config.channels) : CallbackBegin(input)
    \/ PushSample
    \/ DrainBegin
    \/ DrainPop
    \/ DrainEnd

SpecSpsc == InitSpsc /\ [][NextSpsc]_vars

(***************************************************************************)
(* SpecCancel: the transcriber loop while the running flag is cleared at   *)
(* any moment, the segmenter sending segments and ending at any moment     *)
(***************************************************************************)
MaxCancelFrames == 6

CancelFrame ==
    UNCHANGED <<segVars, chanVars, injVars, envVars, osVars, observer, histVars,
                config, staging, captureLog>>

TickCancel ==
    \/ \E a \in {4, 9} :
          /\ Len(drainLog) < MaxCancelFrames
          /\ SegmenterTick(MakeFrame(Len(drainLog) + 1, a), TRUE)
    \/ SegmenterTick(<<>>, TRUE)

\* running.store(false, ..) by a holder of the flag; what the transcriber
\* had done by then is noted
ClearRunning ==
    /\ ctl.running
    /\ ctl' = [ctl EXCEPT !.running = FALSE,
                          !.cleared = [rx |-> ctl.rx, queued |-> Len(audio_chan),
                                       segments |-> Len(transcribeLog),
                                       texts |-> Cardinality({ k \in 1..Len(transcribeLog) : transcribeLog[k].sent })]]
    /\ UNCHANGED threads
    /\ CancelFrame

\* while running.load(Ordering::Relaxed)
TranscriberLoad ==
    /\ threads.transcriber = "running"
    /\ ctl.rx = "load"
    /\ IF ctl.running
       THEN /\ ctl' = [ctl EXCEPT !.rx = "recv"]
            /\ UNCHANGED threads
       ELSE /\ ctl' = [ctl EXCEPT !.rx = "stopped"]
            /\ threads' = [threads EXCEPT !.transcriber = "exited"]
    /\ CancelFrame

\* if let Ok(audio_data) = rx.recv() { .. }: the segment is processed and the
\* loop goes back to its condition
TranscriberRecvOk(inference_ok, full_text) ==
    /\ ctl.rx = "recv"
    /\ TranscriberSegment(inference_ok, full_text)
    /\ ctl' = [ctl EXCEPT !.rx = "load"]

\* the mutant of TranscriberRecvErr: the wait ends when the flag is cleared
TranscriberRecvErrOnClear ==
    /\ threads.transcriber = "running"
    /\ ctl.rx = "recv"
    /\ \/ ~ctl.running
       \/ audio_chan = <<>> /\ AudioSenderDropped
    /\ ctl' = [ctl EXCEPT !.rx = "closed"]
    /\ threads' = [threads EXCEPT !.transcriber = "exited"]
    /\ CancelFrame

\* else { break; }: recv fails on the empty channel whose sender is dropped
TranscriberRecvErr ==
    /\ threads.transcriber = "running"
    /\ ctl.rx = "recv"
    /\ audio_chan = <<>>
    /\ AudioSenderDropped
    /\ ctl' = [ctl EXCEPT !.rx = "closed"]
    /\ threads' = [threads EXCEPT !.transcriber = "exited"]
    /\ CancelFrame

NextCancel ==
    \/ TickCancel
    \/ SegmenterStop
    \/ ClearRunning
    \/ TranscriberLoad
    \/ \E inference_ok \in BOOLEAN, full_text \in WhisperOutputs :
          TranscriberRecvOk(inference_ok, full_text)
    \/ TranscriberRecvErr

SpecCancel == Init /\ [][NextCancel]_vars

(***************************************************************************)
(* SpecModel: ModelManager::get_or_download_model called again and again,  *)
(* each download failing at any of its steps or not                        *)
(***************************************************************************)
MaxModelCalls == 3
BodyChunks == 3

\* the body of the model file on the server, and a file's state on disk
ModelBody == [i \in 1..BodyChunks |-> i]
AbsentFile == <<"absent">>
FileOf(content) == <<"file", content>>

DownloadFaults == {"none", "request", "status", "create", "copy"}

\* the mutant of download_model: a file whose copy failed is removed
download_model_removing(local, fault, written) ==
    CASE fault = "request" -> [ok |-> FALSE, local |-> local]
      [] fault = "status"  -> [ok |-> FALSE, local |-> local]
      [] fault = "create"  -> [ok |-> FALSE, local |-> local]
      [] fault = "copy"    -> [ok |-> FALSE, local |-> AbsentFile]
      [] OTHER             -> [ok |-> TRUE,  local |-> FileOf(ModelBody)]

\* download_model: get, status check, File::create (an empty file), copy of
\* the body, which on a failure has written `written` chunks of it
download_model(local, fault, written) ==
    CASE fault = "request" -> [ok |-> FALSE, local |-> local]
      [] fault = "status"  -> [ok |-> FALSE, local |-> local]
      [] fault = "create"  -> [ok |-> FALSE, local |-> local]
      [] fault = "copy"    -> [ok |-> FALSE, local |-> FileOf(SubSeq(ModelBody, 1, written))]
      [] OTHER             -> [ok |-> TRUE,  local |-> FileOf(ModelBody)]

\* get_or_download_model: the bundled file, else the local file, else the download
get_or_download_model(bundled, local, fault, written) ==
    IF bundled
    THEN [result |-> "Ok", path |-> "bundled", downloaded |-> FALSE, local |-> local]
    ELSE IF local # AbsentFile
    THEN [result |-> "Ok", path |-> "local", downloaded |-> FALSE, local |-> local]
    ELSE LET d == download_model(local, fault, written)
         IN  [result |-> IF d.ok THEN "Ok" ELSE "Err",
              path |-> IF d.ok THEN "local" ELSE "none",
              downloaded |-> TRUE, local |-> d.local]

InitModel ==
    /\ SegInit /\ InjInit /\ OsInit /\ HistInit
    /\ audio_chan = <<>>
    /\ text_chan = <<>>
    /\ observer = <<>>
    /\ settings = DefaultSettings
    /\ window_title = Title_Notepad
    /\ focused = EditBox
    /\ LoadedInit
    /\ config = [platform |-> "windows", pre_roll_frames |-> PreRollFrames,
                 capacity |-> RingCapacity]
    /\ threads = [start_engine |-> "Ok", fault |-> "none", segmenter |-> "running",
                  transcriber |-> "running", injector |-> "running"]
    /\ staging = <<>>
    /\ captureLog = <<>>
    /\ \E bundled \in BOOLEAN, local \in {AbsentFile, FileOf(ModelBody)} :
          ctl = [CtlIdle EXCEPT !.model = [bundled |-> bundled, local |-> local,
                                           calls |-> <<>>]]

GetModel(fault, written) ==
    /\ Len(ctl.model.calls) < MaxModelCalls
    /\ LET r == get_or_download_model(ctl.model.bundled, ctl.model.local, fault, written)
       IN  ctl' = [ctl EXCEPT !.model.local = r.local,
                              !.model.calls = Append(@,
                                  [result |-> r.result, path |-> r.path,
                                   downloaded |-> r.downloaded,
                                   fault |-> IF r.downloaded THEN fault ELSE "none",
                                   before |-> ctl.model.local, after |-> r.local])]
    /\ UNCHANGED <<segVars, chanVars, injVars, envVars, osVars, observer, histVars,
                   config, threads, staging, captureLog>>

NextModel ==
    \E fault \in DownloadFaults, written \in 0..(BodyChunks - 1) : GetModel(fault, written)

SpecModel == InitModel /\ [][NextModel]_vars

(***************************************************************************)
(* Claims                                                                  *)
(***************************************************************************)
\* the last k values of log exist and all satisfy P
LastAll(log, k, P(_)) ==
    /\ Len(log) >= k
    /\ \A i \in (Len(log) - k + 1)..Len(log) : P(log[i])

StrictlyIncreasing(q) == \A i, j \in 1..Len(q) : i < j => q[i] < q[j]

SegsOf(q) == [i \in 1..Len(q) |-> q[i].seg]

\* the k-th smallest member of a set of numbers
Kth(S, k) == CHOOSE x \in S : Cardinality({y \in S : y < x}) = k - 1

\* C4 (SpecVad): a process call made in Silence ends in Speaking exactly when
\* at least start_frames values have been fed and the last start_frames of
\* them are all strictly above start_threshold; a call made in Speaking ends
\* in Silence exactly when the last stop_frames values are all strictly below
\* stop_threshold; otherwise the state is the one the call started in.
C4_VadTransitionRule ==
    rmsLog # <<>> =>
        LET above(x) == x > vad.start_threshold
            below(x) == x < vad.stop_threshold
        IN  /\ prevState = "Silence" =>
                  (vad.current_state = "Speaking"
                     <=> LastAll(rmsLog, vad.start_window_frames, above))
            /\ prevState = "Speaking" =>
                  (vad.current_state = "Silence"
                     <=> LastAll(rmsLog, vad.stop_window_frames, below))

\* a Speaking -> Silence transition over a stop window of two frames or more,
\* in a run that also fed a value equal to the start threshold
C4_Witness ==
    /\ prevState = "Speaking"
    /\ vad.current_state = "Silence"
    /\ vad.stop_window_frames >= 2
    /\ \E i \in 1..Len(rmsLog) : rmsLog[i] = vad.start_threshold

\* C5 (Spec): while every RMS value fed so far is strictly below
\* stop_threshold (and stop_threshold < start_threshold) the VAD is in
\* Silence, no vad-update was emitted, no segment was handed over or sent,
\* and nothing reached the text channel or the injector.
C5_SilenceOnly ==
    ( /\ vad.stop_threshold < vad.start_threshold
      /\ \A i \in 1..Len(rmsLog) : rmsLog[i] < vad.stop_threshold )
    => /\ vad.current_state = "Silence"
       /\ last_state = "Silence"
       /\ observer = <<>>
       /\ handed = <<>>
       /\ audio_chan = <<>>
       /\ transcribeLog = <<>>
       /\ text_chan = <<>>
       /\ injectLog = <<>>

\* more quiet frames than either window holds have been processed
C5_Witness ==
    /\ Len(rmsLog) > Max(StartWindowFrames, StopWindowFrames) + 1
    /\ \A i \in 1..Len(rmsLog) : rmsLog[i] < vad.stop_threshold

\* ticks on which the segmenter saw the VAD go from `from` to `to`
TransitionTicks(from, to) ==
    { i \in 1..Len(drainLog) : drainLog[i].last = from /\ drainLog[i].state = to }

\* the frames a..b of the drain history, concatenated
DrainedRun(a, b) == Flatten([i \in 1..(b - a + 1) |-> drainLog[a + i - 1].frame])

\* first frame of the k-th segment: the oldest of the (at most PreRollFrames)
\* frames drained in Silence right before the k-th Silence -> Speaking tick
SegmentFirst(k) ==
    LET s   == Kth(TransitionTicks("Silence", "Speaking"), k)
        low == IF k = 1 THEN 1 ELSE Kth(TransitionTicks("Speaking", "Silence"), k - 1)
    IN  Max(low, s - PreRollFrames)

\* C6 (Spec): the k-th buffer handed to the resampler is the concatenation,
\* in drain order, of the frames from the oldest pre-roll frame held at the
\* k-th Silence -> Speaking tick up to the frame before the k-th
\* Speaking -> Silence tick: one contiguous run of the drain history,
\* excluding the frame that returned the state to Silence; and the pre-roll
\* ring is empty once it has been spliced in.
C6_SegmentConstruction ==
    /\ Len(handed) = Cardinality(TransitionTicks("Speaking", "Silence"))
    /\ \A k \in 1..Len(handed) :
          handed[k] = DrainedRun(SegmentFirst(k),
                                 Kth(TransitionTicks("Speaking", "Silence"), k) - 1)
    /\ vad.current_state = "Speaking" => pre_roll_buffer = <<>>

\* a segment whose pre-roll ring was full and had evicted a frame, and which
\* went on for two frames after the one that started it
C6_Witness ==
    /\ Len(handed) = 1
    /\ SegmentFirst(1) > 1
    /\ Len(handed[1]) >= (PreRollFrames + 3) * FrameLen

\* C3 (Spec): segments are received by the transcriber in the order they
\* were sent, texts are queued in that order, the injector handles them in
\* that order, one at a time (the text it holds is later than every finished
\* inject call and earlier than every queued text), and none twice.
C3_PipelineFifo ==
    /\ StrictlyIncreasing(SegsOf(audio_chan))
    /\ StrictlyIncreasing(SegsOf(transcribeLog))
    /\ StrictlyIncreasing(SegsOf(text_chan))
    /\ StrictlyIncreasing(SegsOf(injectLog))
    /\ \A i \in 1..Len(transcribeLog), j \in 1..Len(audio_chan) :
          transcribeLog[i].seg < audio_chan[j].seg
    /\ \A i \in 1..Len(text_chan) :
          /\ \E j \in 1..Len(transcribeLog) : transcribeLog[j].seg = text_chan[i].seg
          /\ \A j \in 1..Len(injectLog) : injectLog[j].seg < text_chan[i].seg
    /\ inj_pc = "inject" =>
          /\ \A j \in 1..Len(injectLog) : injectLog[j].seg < inj_cur.seg
          /\ \A i \in 1..Len(text_chan) : inj_cur.seg < text_chan[i].seg

\* two segments went through the whole pipeline
C3_Witness ==
    /\ Len(injectLog) = 2
    /\ injectLog[1].seg = 1
    /\ injectLog[2].seg = 2

\* the window contexts as the specification classifies a title
StatedCanvasMarks == { << "g", "o", "o", "g", "l", "e", " ", "d", "o", "c", "s" >>, << "g", "o", "o", "g", "l", "e", " ", "s", "h", "e", "e", "t", "s" >>, << "g", "o", "o", "g", "l", "e", " ", "s", "l", "i", "d", "e", "s" >> }

StatedBrowserMarks ==
    { << "-", " ", "g", "o", "o", "g", "l", "e", " ", "c", "h", "r", "o", "m", "e" >>, << "-", " ", "m", "i", "c", "r", "o", "s", "o", "f", "t", " ", "e", "d", "g", "e" >>, << "-", " ", "m", "o", "z", "i", "l", "l", "a", " ", "f", "i", "r", "e", "f", "o", "x" >>, << "-", " ", "f", "i", "r", "e", "f", "o", "x" >>,
      << "-", " ", "o", "p", "e", "r", "a" >>, << "-", " ", "b", "r", "a", "v", "e" >>, << "-", " ", "v", "i", "v", "a", "l", "d", "i" >>, << "-", " ", "a", "r", "c" >> }

StatedContext(title) ==
    IF Contains(title, N_VisualStudioCode) \/ Contains(title, N_Antigravity) THEN "Editor"
    ELSE IF \E m \in StatedCanvasMarks : Contains(to_lowercase(title), m) THEN "Canvas"
    ELSE IF \E m \in StatedBrowserMarks : Contains(to_lowercase(title), m) THEN "Browser"
    ELSE "NativeApp"

StrategyNames == { "uia_text", "uia_value", "keyboard", "clipboard" }

\* C1 (SpecInject): every inject call made in a NativeApp or Browser window
\* while the focused element is not editable submits no input event, leaves
\* the focused control's value as it was, and returns Ok.
C1_SafetyGate ==
    \A i \in 1..Len(injectLog) :
        LET c == injectLog[i]
        IN  (StatedContext(c.title) \in {"NativeApp", "Browser"} /\ ~c.editable)
            => /\ c.effects.events = <<>>
               /\ c.effects.value = c.value_before
               /\ c.effects.ok

\* the editability gate as stated: keyboard-focusable, and Edit, or Document
\* with a writable value facet and an editor-like name
StatedEditorNames ==
    { N_editor, N_compose, N_message_body, N_rich_text, << "m", "a", "i", "l", " ", "b", "o", "d", "y" >>, << "e", "d", "i", "t", "i", "n", "g" >> }

StatedEditable(el) ==
    /\ el.present
    /\ el.keyboard_focusable
    /\ \/ el.control_type = UIA_EditControlTypeId
       \/ /\ el.control_type = UIA_DocumentControlTypeId
          /\ el.has_value_pattern
          /\ el.readonly # "true"
          /\ \E n \in StatedEditorNames : Contains(to_lowercase(el.name), n)

\* C2 (SpecGate): is_editable_element answers true only for an element the
\* stated gate accepts, and false for every other combination of attributes.
C2_GatePredicate ==
    \A i \in 1..Len(injectLog) : injectLog[i].gate => StatedEditable(focused)

\* the stated lookup key: trimmed, lowercased, ASCII punctuation stripped
StatedKey(text) == trim(SelectSeq(to_lowercase(trim(text)), NotPunctuation))

SameEffects(e1, e2) ==
    /\ e1.how = e2.how
    /\ e1.events = e2.events
    /\ e1.typed = e2.typed

\* C7 (SpecInject): with allow_commands set, the key looked up is the stated
\* key of the received text whatever disable_punctuation is, and two received
\* texts with the same stated key that names a shortcut have the same effects.
C7_CommandNormalization ==
    /\ \A i \in 1..Len(injectLog) :
          injectLog[i].allow_commands
              => injectLog[i].effects.key = StatedKey(injectLog[i].received)
    /\ ( /\ Len(injectLog) = 2
         /\ injectLog[1].allow_commands
         /\ StatedKey(injectLog[1].received) = StatedKey(injectLog[2].received)
         /\ StatedKey(injectLog[1].received) \in DOMAIN injectLog[1].shortcuts )
       => SameEffects(injectLog[1].effects, injectLog[2].effects)

ControlTokens == { T_BACKSPACE, T_DELETE, T_ENTER, T_DELETE_LINE }

\* the key events stated for each control token
StatedTokenEvents(token) ==
    IF token = T_BACKSPACE THEN << KeyDown("VK_BACK"), KeyUp("VK_BACK") >>
    ELSE IF token = T_DELETE THEN << KeyDown("VK_DELETE"), KeyUp("VK_DELETE") >>
    ELSE IF token = T_ENTER THEN << KeyDown("VK_RETURN"), KeyUp("VK_RETURN") >>
    ELSE << KeyDown("VK_SHIFT"), KeyDown("VK_HOME"), KeyUp("VK_HOME"), KeyUp("VK_SHIFT"),
            KeyDown("VK_BACK"), KeyUp("VK_BACK") >>

\* C8 (SpecInject): with allow_commands set, a received text whose stated key
\* maps to a control token yields exactly that token's key events, types no
\* character and runs no strategy (so "Delete!" yields a Backspace key with
\* the default entry for "delete"); with allow_commands clear the table is
\* not consulted and no command runs.
C8_ControlTokens ==
    \A i \in 1..Len(injectLog) :
        LET c == injectLog[i]
            k == StatedKey(c.received)
        IN  /\ ( /\ c.allow_commands
                 /\ k \in DOMAIN c.shortcuts
                 /\ c.shortcuts[k] \in ControlTokens )
               => /\ c.effects.how = "command"
                  /\ c.effects.events = StatedTokenEvents(c.shortcuts[k])
                  /\ c.effects.typed = <<>>
                  /\ c.effects.value = c.value_before
            /\ ~c.allow_commands
               => /\ c.effects.how # "command"
                  /\ c.effects.key = NoKey

RECURSIVE WordsBy(_, _, _)
\* the maximal runs of `text` holding no character of `seps`, in order
WordsBy(text, cur, seps) ==
    IF text = <<>> THEN (IF cur = <<>> THEN <<>> ELSE << cur >>)
    ELSE IF Head(text) \in seps
    THEN (IF cur = <<>> THEN <<>> ELSE << cur >>) \o WordsBy(Tail(text), <<>>, seps)
    ELSE WordsBy(Tail(text), Append(cur, Head(text)), seps)

RECURSIVE JoinWords(_)
JoinWords(ws) ==
    IF ws = <<>> THEN <<>>
    ELSE IF Len(ws) = 1 THEN ws[1]
    ELSE ws[1] \o << " " >> \o JoinWords(Tail(ws))

\* punctuation removed, then runs of spaces collapsed, then trimmed
StatedClean(text) ==
    trim(JoinWords(WordsBy(SelectSeq(text, NotPunctuation), <<>>, {" "})))

\* punctuation replaced by a space, then runs of spaces collapsed, then trimmed
AmendedClean(text) ==
    trim(JoinWords(WordsBy(text, <<>>, AsciiPunctuation \cup {" "})))

Untouched(c) == IF c.auto_space THEN Append(c.received, " ") ELSE c.received

\* C9 as stated (SpecInject): with disable_punctuation set, the text shown to
\* the observer and passed to inject is the received text with the ASCII
\* punctuation removed, runs of spaces collapsed, trimmed; with it clear the
\* step changes nothing.
C9_AsStated ==
    \A i \in 1..Len(injectLog) :
        LET c == injectLog[i]
        IN  /\ c.disable_punctuation => c.text = StatedClean(c.received)
            /\ ~c.disable_punctuation => c.text = Untouched(c)
            /\ observer[i] = [event |-> "transcription", text |-> c.text]

\* C9 amended (SpecInject): with disable_punctuation set, the text shown to
\* the observer and passed to inject is the received text with every ASCII
\* punctuation character replaced by a space, runs of spaces collapsed,
\* trimmed, and a strategy that runs without a shortcut replacement runs with
\* that string; with it clear the step changes nothing.
C9_PunctuationReplaced ==
    \A i \in 1..Len(injectLog) :
        LET c == injectLog[i]
        IN  /\ c.disable_punctuation => c.text = AmendedClean(c.received)
            /\ ~c.disable_punctuation => c.text = Untouched(c)
            /\ observer[i] = [event |-> "transcription", text |-> c.text]
            /\ ( /\ c.disable_punctuation
                 /\ c.effects.how \in StrategyNames
                 /\ c.effects.key \notin DOMAIN c.shortcuts )
               => c.effects.typed = c.text

\* "don't" was cleaned to "don t" and typed as such
C9_Witness ==
    \E i \in 1..Len(injectLog) :
        /\ injectLog[i].disable_punctuation
        /\ injectLog[i].received = X_dont
        /\ injectLog[i].effects.how = "keyboard"
        /\ injectLog[i].effects.typed = << "d", "o", "n", " ", "t" >>

\* C10 (SpecInject): with auto_space set, the text passed to inject is the
\* received text's cleaned form followed by one space, and a strategy that
\* runs is given a text ending in that space, whatever disable_punctuation
\* and allow_commands are; with auto_space clear no space is appended.
C10_AutoSpace ==
    \A i \in 1..Len(injectLog) :
        LET c == injectLog[i]
        IN  /\ c.auto_space
               => /\ c.text # <<>> /\ c.text[Len(c.text)] = " "
                  /\ c.effects.how \in StrategyNames
                        => /\ c.effects.typed # <<>>
                           /\ c.effects.typed[Len(c.effects.typed)] = " "
            /\ (~c.auto_space /\ ~c.disable_punctuation) => c.text = c.received

IsStrategy(x) == x \in StrategyNames

Range(q) == { q[i] : i \in 1..Len(q) }

IsPrefix(a, b) == Len(a) <= Len(b) /\ a = SubSeq(b, 1, Len(a))

\* the inject calls that got as far as the text strategies
ReachedStrategies(c) == c.effects.how \notin { "empty", "command" }

\* C11 (SpecInject): in a NativeApp window no strategy is attempted before the
\* editability gate has passed; after it the strategies run in the order
\* value-set (old value followed by the text), unicode keystrokes, clipboard
\* paste, each only after the failure of the ones before, the first success
\* ending the call.
C11_NativeStrategyOrder ==
    \A i \in 1..Len(injectLog) :
        LET c      == injectLog[i]
            t      == c.effects.tried
            strats == SelectSeq(t, IsStrategy)
        IN  (StatedContext(c.title) = "NativeApp" /\ ReachedStrategies(c))
            => /\ strats # <<>> => (c.editable /\ t[1] = "gate")
               /\ IsPrefix(strats, << "uia_value", "keyboard", "clipboard" >>)
               /\ strats # <<>> => c.effects.how = strats[Len(strats)]
               /\ c.effects.how = "uia_value"
                     => c.effects.value = c.value_before \o c.effects.typed

\* C12 (SpecInject): in a Browser window, once the gate has passed, the text
\* goes by clipboard paste only: no value-set is made and no unicode keystroke
\* is synthesized.
C12_BrowserClipboardOnly ==
    \A i \in 1..Len(injectLog) :
        LET c == injectLog[i]
        IN  (StatedContext(c.title) = "Browser" /\ ReachedStrategies(c))
            => /\ "uia_value" \notin Range(c.effects.tried)
               /\ "keyboard" \notin Range(c.effects.tried)
               /\ c.effects.value = c.value_before
               /\ c.editable => c.effects.how = "clipboard"

\* C13 (SpecInject): with 'Visual Studio Code' or 'Antigravity' in the window
\* title, a call that reaches the strategies asks neither the gate nor UI
\* Automation and goes straight to unicode keystrokes; the synthesis succeeds
\* and submits a key-down then a key-up for each code unit of the text, in
\* order, 2n events in all, and neither the clipboard nor the focused value
\* is written.
C13_EditorKeystrokes ==
    \A i \in 1..Len(injectLog) :
        LET c == injectLog[i]
            e == c.effects
        IN  ( /\ Contains(c.title, N_VisualStudioCode) \/ Contains(c.title, N_Antigravity)
              /\ ReachedStrategies(c) )
            => /\ e.tried = << "keyboard" >>
               /\ e.how = "keyboard" /\ e.ok
               /\ Len(e.events) = 2 * Len(e.typed)
               /\ \A k \in 1..Len(e.typed) :
                     /\ e.events[2 * k - 1] = UnicodeDown(e.typed[k])
                     /\ e.events[2 * k] = UnicodeUp(e.typed[k])
               /\ e.clipboard = c.clipboard_before
               /\ e.value = c.value_before
               /\ (~c.allow_commands /\ ~c.disable_punctuation) => e.typed = c.text

\* "fn main" in a Visual Studio Code window, focus on a button: 14 key events
C13_Witness ==
    \E i \in 1..Len(injectLog) :
        /\ injectLog[i].title = Title_VSCode
        /\ injectLog[i].text = X_fn_main
        /\ ~injectLog[i].editable
        /\ injectLog[i].effects.how = "keyboard"
        /\ Len(injectLog[i].effects.events) = 14
        /\ injectLog[i].effects.typed = X_fn_main

\* C14 (SpecInject): the context is the stated function of the window title;
\* in an Editor or Canvas window the gate is not asked and a strategy runs
\* whatever the focused element is, in a Browser or NativeApp window a
\* strategy runs only after the gate was asked and passed.
C14_ContextClassification ==
    \A i \in 1..Len(injectLog) :
        LET c   == injectLog[i]
            t   == c.effects.tried
            ctx == StatedContext(c.title)
        IN  ReachedStrategies(c)
            => /\ ctx \in { "Editor", "Canvas" }
                  => /\ "gate" \notin Range(t)
                     /\ c.effects.how \in StrategyNames
               /\ ctx \in { "Browser", "NativeApp" }
                  => /\ "gate" \in Range(t)
                     /\ c.effects.how \in StrategyNames => (c.editable /\ t[1] = "gate")

\* a string without its leading and trailing whitespace, by positions
TrimmedOf(s) ==
    LET inked == { i \in 1..Len(s) : s[i] \notin Whitespace }
    IN  IF inked = {} THEN <<>>
        ELSE SubSeq(s, CHOOSE i \in inked : \A j \in inked : i <= j,
                       CHOOSE i \in inked : \A j \in inked : j <= i)

RECURSIVE OutsideSpans(_, _)
\* one left-to-right scan from position i, outside any span: an opener with a
\* closer somewhere after it starts a span that ends at the first such
\* closer; an opener without one ends the scan and the rest is kept
OutsideSpans(text, i) ==
    IF i > Len(text) THEN <<>>
    ELSE IF text[i] \in Openers
    THEN LET closers == { j \in i..Len(text) : text[j] \in Closers }
         IN  IF closers = {} THEN SubSeq(text, i, Len(text))
             ELSE OutsideSpans(text, 1 + CHOOSE j \in closers : \A k \in closers : j <= k)
    ELSE << text[i] >> \o OutsideSpans(text, i + 1)

StatedFilter(full_text) == TrimmedOf(OutsideSpans(TrimmedOf(full_text), 1))

\* C15 (SpecFilter): after a successful inference the filtered text is the
\* concatenated text trimmed, with each span from the leftmost opener to the
\* first closer of either kind after it removed, left to right, until an
\* opener has no closer after it, and trimmed again; a text that is sent is
\* that filtered text.
C15_HallucinationStripping ==
    /\ \A i \in 1..Len(transcribeLog) :
          transcribeLog[i].inference_ok
              => transcribeLog[i].text = StatedFilter(transcribeLog[i].full_text)
    /\ \A i \in 1..Len(text_chan) :
          \E j \in 1..Len(transcribeLog) :
              /\ transcribeLog[j].seg = text_chan[i].seg
              /\ text_chan[i].text = StatedFilter(transcribeLog[j].full_text)

\* "[)a(" : the span "[)" is removed, the "(" has no closer and stays
C15_Witness ==
    \E i \in 1..Len(transcribeLog) :
        /\ transcribeLog[i].full_text = << "[", ")", "a", "(" >>
        /\ transcribeLog[i].text = << "a", "(" >>
        /\ transcribeLog[i].sent
        /\ text_chan = << [seg |-> transcribeLog[i].seg, text |-> << "a", "(" >>] >>

StatedNoise(text) ==
    \/ text = <<>>
    \/ text = << ".", ".", "." >>
    \/ (Len(text) >= 2 /\ text[1] = "[" /\ text[2] = "_")

\* C16 (SpecFilter): a transcription whose filtered text is empty, is "..."
\* or begins with "[_" is not sent; every other one is sent exactly once; so
\* every queued text is non-empty and neither starts nor ends with whitespace.
C16_NoiseDrop ==
    /\ \A i \in 1..Len(transcribeLog) :
          LET t == transcribeLog[i]
              n == Cardinality({ k \in 1..Len(text_chan) : text_chan[k].seg = t.seg })
          IN  t.inference_ok
              => /\ StatedNoise(t.text) => n = 0
                 /\ ~StatedNoise(t.text) => n = 1
    /\ \A k \in 1..Len(text_chan) :
          LET text == text_chan[k].text
          IN  /\ text # <<>>
              /\ text[1] \notin Whitespace
              /\ text[Len(text)] \notin Whitespace

\* "[_a" survives the bracket filter (no closer) and is dropped as noise
C16_Witness ==
    \E i \in 1..Len(transcribeLog) :
        /\ transcribeLog[i].inference_ok
        /\ transcribeLog[i].text = << "[", "_", "a" >>
        /\ ~transcribeLog[i].sent
        /\ text_chan = <<>>

\* C17 (SpecTimeout): at every tick the stop window of the VAD is
\* max(1, silence_timeout / frame_ms) frames for the silence_timeout the cell
\* holds at that tick, for the value loaded at engine start as for every
\* value set later.
C17_TimeoutDrivesStopWindow ==
    \A i \in 1..Len(drainLog) :
        drainLog[i].stop_frames = Max(1, drainLog[i].timeout \div FRAME_SIZE_MS)

\* the frames drained at ticks a..b, one element per tick
DrainedFrames(a, b) == [i \in 1..(b - a + 1) |-> drainLog[a + i - 1].frame]

\* C18 (SpecTimeout): a change of the silence timeout loses nothing of the
\* segment in progress. Whatever the timeout was changed to and whenever, the
\* VAD state is the state of the last tick and leaves Speaking only when the
\* last stop_frames RMS values are all below the stop threshold; while
\* Speaking the accumulator holds the pre-roll and every frame drained since
\* the segment began; every Speaking -> Silence tick hands exactly that
\* segment over; and in Silence the pre-roll ring holds the last frames
\* drained since the previous segment ended.
C18_ReconfigurationKeepsSegment ==
    LET n      == Len(drainLog)
        starts == TransitionTicks("Silence", "Speaking")
        ends   == TransitionTicks("Speaking", "Silence")
        state  == IF n = 0 THEN "Silence" ELSE drainLog[n].state
        below(x) == x < vad.stop_threshold
        first  == Max(IF ends = {} THEN 1 ELSE Kth(ends, Cardinality(ends)),
                      n - PreRollFrames + 1)
    IN  /\ vad.current_state = state
        /\ last_state = state
        /\ \A i \in 1..n :
              drainLog[i].last = "Speaking" =>
                  (drainLog[i].state = "Silence"
                     <=> LastAll(SubSeq(rmsLog, 1, i), drainLog[i].stop_frames, below))
        /\ state = "Speaking" =>
              voice_buffer = DrainedRun(SegmentFirst(Cardinality(starts)), n)
        /\ Len(handed) = Cardinality(ends)
        /\ \A k \in 1..Len(handed) :
              handed[k] = DrainedRun(SegmentFirst(k), Kth(ends, k) - 1)
        /\ state = "Silence" => pre_roll_buffer = DrainedFrames(first, n)

\* a segment was handed over whose Speaking run saw the timeout change, and
\* the timeout also changed between two ticks in Silence
C18_Witness ==
    /\ \E k \in 1..Len(handed) :
          \E i \in 2..Len(drainLog) :
              /\ Kth(TransitionTicks("Silence", "Speaking"), k) < i
              /\ i <= Kth(TransitionTicks("Speaking", "Silence"), k)
              /\ drainLog[i].timeout # drainLog[i - 1].timeout
    /\ \E i \in 2..Len(drainLog) :
          /\ drainLog[i - 1].state = "Silence"
          /\ drainLog[i].state = "Silence"
          /\ drainLog[i].timeout # drainLog[i - 1].timeout

SettingsFields ==
    { "auto_space", "silence_timeout", "allow_commands", "disable_punctuation", "shortcuts" }

\* the field of the settings record a command is about
CommandField(call) ==
    CASE call.command = "set_auto_space"          -> "auto_space"
      [] call.command = "set_silence_timeout"     -> "silence_timeout"
      [] call.command = "set_allow_commands"      -> "allow_commands"
      [] call.command = "set_disable_punctuation" -> "disable_punctuation"
      [] OTHER                                    -> "shortcuts"

\* the value that field is to hold once the command has completed, `table`
\* being the shortcut table before it
StatedValue(call, table) ==
    CASE call.command = "set_silence_timeout" -> call.ms
      [] call.command = "upsert_shortcut" ->
            [k \in DOMAIN table \cup { to_lowercase(call.key) } |->
                IF k = to_lowercase(call.key) THEN call.value ELSE table[k]]
      [] call.command = "delete_shortcut" ->
            [k \in DOMAIN table \ { to_lowercase(call.key) } |-> table[k]]
      [] OTHER -> call.state

HandTicks == { i \in 1..Len(drainLog) : drainLog[i].hand }

ResampleFailed(N) == ~drainLog[Kth(HandTicks, N)].resampled

InferenceFailed(N) ==
    \E j \in 1..Len(transcribeLog) :
        transcribeLog[j].seg = N /\ ~transcribeLog[j].inference_ok

\* how often segment N occurs in a queue or log
Occurrences(q, N) == Cardinality({ j \in 1..Len(q) : q[j].seg = N })

\* C20 (Spec): a segment whose resampling or inference failed yields no text
\* and no injection, and nothing else stops: the accumulator is empty after
\* every hand-off, every Speaking -> Silence tick hands a segment over
\* whatever happened to the ones before, every segment that was resampled is
\* queued or transcribed exactly once, every transcription that succeeded
\* with a text worth keeping is queued, held by the injector or injected
\* exactly once, and no segment is transcribed or injected twice.
C20_PerSegmentErrors ==
    /\ Cardinality(HandTicks) = Len(handed)
    /\ Len(handed) = Cardinality(TransitionTicks("Speaking", "Silence"))
    /\ (drainLog # <<>> /\ drainLog[Len(drainLog)].hand) => voice_buffer = <<>>
    /\ \A N \in 1..Len(handed) :
          LET queued      == Occurrences(audio_chan, N)
              transcribed == Occurrences(transcribeLog, N)
              texts       == Occurrences(text_chan, N)
              held        == IF inj_pc = "inject" /\ inj_cur.seg = N THEN 1 ELSE 0
              injected    == Occurrences(injectLog, N)
          IN  /\ ResampleFailed(N) => queued = 0 /\ transcribed = 0
              /\ ~ResampleFailed(N) => queued + transcribed = 1
              /\ (ResampleFailed(N) \/ InferenceFailed(N)) =>
                    texts = 0 /\ held = 0 /\ injected = 0
              /\ \A j \in 1..Len(transcribeLog) :
                    transcribeLog[j].seg = N =>
                        /\ transcribeLog[j].sent
                             <=> (transcribeLog[j].inference_ok /\ keep_text(transcribeLog[j].text))
                        /\ texts + held + injected = IF transcribeLog[j].sent THEN 1 ELSE 0

\* segment 1 failed in the resampler or in the model, and segment 2 was
\* transcribed and typed
C20_Witness ==
    /\ Len(handed) = 2
    /\ ResampleFailed(1) \/ InferenceFailed(1)
    /\ Len(injectLog) = 1
    /\ injectLog[1].seg = 2
    /\ injectLog[1].effects.ok
    /\ injectLog[1].effects.typed # <<>>

IsVadUpdate(e) == e.event = "vad-update"

\* the vad-update events published so far, in order
VadUpdates == SelectSeq(observer, IsVadUpdate)

\* the ticks at which the VAD state changed
ChangeTicks == { i \in 1..Len(drainLog) : drainLog[i].state # drainLog[i].last }

StatedStateName(state) == IF state = "Speaking" THEN "speaking" ELSE "silence"

\* C23 (Spec): the vad-update events are, in order, one per tick at which the
\* VAD state changed, each with the new state and the RMS of the frame of
\* that tick; a tick without a change publishes none; the events alternate,
\* starting with "speaking".
C23_VadObserverEvents ==
    /\ last_state = vad.current_state
    /\ Len(VadUpdates) = Cardinality(ChangeTicks)
    /\ \A k \in 1..Len(VadUpdates) :
          LET i == Kth(ChangeTicks, k)
          IN  /\ VadUpdates[k].state = StatedStateName(drainLog[i].state)
              /\ VadUpdates[k].rms = calculate_rms(drainLog[i].frame)
              /\ VadUpdates[k].rms = rmsLog[i]
              /\ VadUpdates[k].state = IF k % 2 = 1 THEN "speaking" ELSE "silence"

\* speech began and ended, among ticks that changed nothing
C23_Witness ==
    /\ Len(VadUpdates) = 2
    /\ VadUpdates[1].state = "speaking"
    /\ VadUpdates[2].state = "silence"
    /\ VadUpdates[1].rms # VadUpdates[2].rms
    /\ Len(drainLog) > 2

IsTranscription(e) == e.event = "transcription"

\* the transcription events published so far, in order
TranscriptionEvents == SelectSeq(observer, IsTranscription)

\* the text an event is to carry for a text received with these settings
StatedEventText(received, auto_space, disable_punctuation) ==
    LET spaced == IF auto_space THEN Append(received, " ") ELSE received
    IN  IF disable_punctuation THEN AmendedClean(spaced) ELSE spaced

\* C24 (SpecInject): of the two texts the transcriber emitted, each is either
\* still queued or has exactly one transcription event; the k-th event
\* carries the cleaned form of the k-th text, which is the text handed to
\* inject; and the event is there before the inject call for that text is
\* made.
C24_TranscriptionEvent ==
    LET held == IF inj_pc = "inject" THEN 1 ELSE 0
    IN  /\ Len(TranscriptionEvents) + Len(text_chan) = 2
        /\ Len(TranscriptionEvents) = Len(injectLog) + held
        /\ \A k \in 1..Len(injectLog) :
              /\ TranscriptionEvents[k].text = injectLog[k].text
              /\ TranscriptionEvents[k].text =
                    StatedEventText(injectLog[k].received, injectLog[k].auto_space,
                                    injectLog[k].disable_punctuation)
              /\ injectLog[k].seg = k
        /\ held = 1 =>
              /\ TranscriptionEvents[Len(TranscriptionEvents)].text = inj_cur.text
              /\ inj_cur.text = StatedEventText(inj_cur.received, inj_cur.auto_space,
                                                inj_cur.punctuations_disabled)
              /\ inj_cur.seg = Len(TranscriptionEvents)

\* "don't" was received with punctuation stripping on: its event says "don t"
\* and is published while its inject call is still to come
C24_Witness ==
    /\ inj_pc = "inject"
    /\ Len(injectLog) = 1
    /\ Len(TranscriptionEvents) = 2
    /\ inj_cur.received = X_dont
    /\ inj_cur.punctuations_disabled
    /\ TranscriptionEvents[2].text = << "d", "o", "n", " ", "t" >>

\* C25 (SpecUtterance): with the windows of run_engine_loop (10 and 16
\* frames) and one frame per tick, silence, a tone of 50 frames and silence
\* give one "speaking" event, at the 10th tone frame, one "silence" event, at
\* the 16th quiet frame after the tone, no other event, and one segment sent
\* to the transcriber, made of the pre-roll, every tone frame and the quiet
\* frames up to the one that ended it.
C25_SingleUtterance ==
    LET n        == Len(drainLog)
        start    == LeadTicks + 10
        stop     == LeadTicks + ToneFrames + 16
        first    == Max(1, start - pre_roll_frames)
    IN  /\ vad.start_window_frames = 10
        /\ vad.stop_window_frames = 16
        /\ pre_roll_frames = 16
        /\ ChangeTicks = { i \in { start, stop } : i <= n /\ ToneTicks # {} }
        /\ Len(VadUpdates) = Cardinality(ChangeTicks)
        /\ n >= start /\ ToneTicks # {} => VadUpdates[1].state = "speaking"
        /\ n >= stop /\ ToneTicks # {} => VadUpdates[2].state = "silence"
        /\ Len(handed) = (IF n >= stop /\ ToneTicks # {} THEN 1 ELSE 0)
        /\ Len(audio_chan) = Len(handed)
        /\ Len(handed) = 1 =>
              /\ handed[1] = DrainedRun(first, stop - 1)
              /\ first <= LeadTicks
              /\ \A i \in ToneTicks : first <= i /\ i < stop
              /\ audio_chan[1].data = resample(handed[1])

\* the whole input was fed: 17 frames of zeros, the tone, 34 frames of zeros
C25_Witness ==
    /\ Len(drainLog) = 17 + ToneFrames + TailFrames
    /\ LeadTicks = 17
    /\ Cardinality(ToneTicks) = 50
    /\ Len(VadUpdates) = 2
    /\ Len(audio_chan) = 1

\* the ticks whose frame was drained with the VAD in Silence
SilenceTicks == { i \in 1..Len(drainLog) : drainLog[i].state = "Silence" }

\* the Silence ticks since speech last began
SilenceTicksSinceSpeech ==
    { i \in SilenceTicks :
        \A s \in TransitionTicks("Silence", "Speaking") : s < i }

\* the frames of the last k ticks of S, oldest first
LastFramesOf(S, k) ==
    [j \in 1..k |-> drainLog[Kth(S, Cardinality(S) - k + j)].frame]

\* C26 (SpecUtterance): the pre-roll ring never holds more than
\* pre_roll_frames frames, which is 500 / frame_ms rounded down (16) and so at
\* most 500 / frame_ms rounded up; it holds the frames drained in Silence
\* since speech last began, and once full exactly the pre_roll_frames most
\* recent of them, oldest first.
C26_PreRollBound ==
    LET cap == pre_roll_frames
    IN  /\ cap = PRE_ROLL_MS \div FRAME_SIZE_MS
        /\ cap <= (PRE_ROLL_MS + FRAME_SIZE_MS - 1) \div FRAME_SIZE_MS
        /\ Len(pre_roll_buffer) <= cap
        /\ Len(pre_roll_buffer) = Min(cap, Cardinality(SilenceTicksSinceSpeech))
        /\ pre_roll_buffer = LastFramesOf(SilenceTicksSinceSpeech, Len(pre_roll_buffer))
        /\ Len(pre_roll_buffer) = cap => pre_roll_buffer = LastFramesOf(SilenceTicks, cap)

\* the ring is full of 16 frames and has evicted the oldest: its first frame
\* is not the first frame drained since speech ended
C26_Witness ==
    /\ Len(pre_roll_buffer) = 16
    /\ Len(handed) = 1
    /\ Cardinality(SilenceTicksSinceSpeech) > 16
    /\ pre_roll_buffer[1] # drainLog[Kth(SilenceTicksSinceSpeech, 1)].frame
    /\ pre_roll_buffer[16] = drainLog[Len(drainLog)].frame

\* C27 (SpecHistory): after any sequence of process calls and stop-window
\* updates the RMS history is no longer than the larger of the two windows in
\* force, and it is the most recent values fed, in the order they arrived.
C27_HistoryBound ==
    LET h == vad.energy_history
        n == Len(rmsLog)
    IN  /\ Len(h) <= Max(vad.start_window_frames, vad.stop_window_frames)
        /\ Len(h) <= n
        /\ h = SubSeq(rmsLog, n - Len(h) + 1, n)

\* the stop window was shortened and lengthened again: the history, cut to
\* the shorter bound, holds fewer values than were fed and than it may hold
C27_Witness ==
    /\ Len(vad.energy_history) >= 2
    /\ Len(vad.energy_history) < Len(rmsLog)
    /\ Len(vad.energy_history) < Max(vad.start_window_frames, vad.stop_window_frames)
    /\ vad.energy_history[1] # vad.energy_history[2]


\* ceil(a / b) for b > 0
CeilDiv(a, b) == (a + b - 1) \div b

\* the sample the k-th process call is stated to receive at position j
StatedChunkSample(input, k, j) ==
    LET i == (k - 1) * chunk_size + j
    IN  IF i <= Len(input) THEN input[i] ELSE ZeroSample

\* C29: resample cuts the segment into consecutive pieces of exactly chunk_size
\* samples, zero-pads the last short piece and returns the outputs concatenated
\* in order; a segment of L samples causes ceil(L / chunk_size) process calls,
\* nothing is kept for the next segment, and an error on any piece makes the
\* whole call an error (nothing is sent, the call stops at the failing piece)
C29_ResamplerChunking ==
    \A n \in 1..Len(resampleLog) :
        LET r      == resampleLog[n]
            L      == Len(r.input)
            pieces == CeilDiv(L, chunk_size)
            failed == { k \in 1..pieces : k \in r.fails }
        IN  /\ r.ok <=> failed = {}
            /\ \A k \in 1..Len(r.calls) :
                   /\ Len(r.calls[k]) = chunk_size
                   /\ \A j \in 1..chunk_size :
                          r.calls[k][j] = StatedChunkSample(r.input, k, j)
            /\ r.ok =>
                   /\ Len(r.calls) = pieces
                   /\ r.output = Flatten([k \in 1..pieces |-> RubatoProcess(r.calls[k])])
                   /\ r.output = resample(r.input)
                   /\ audio_chan = << [seg |-> 1, data |-> r.output] >>
            /\ ~r.ok =>
                   /\ \E k \in failed : Len(r.calls) = k /\ \A j \in failed : k <= j
                   /\ audio_chan = <<>>
            /\ voice_buffer = <<>>

\* a segment with a short last piece went through, and so did one that failed
\* on a piece after the first
C29_Witness ==
    /\ resampleLog # <<>>
    /\ Len(resampleLog[1].input) % chunk_size # 0
    /\ Len(resampleLog[1].input) > chunk_size
    /\ resampleLog[1].ok
    /\ audio_chan # <<>>

\* the frames the segmenter processed, in order
ProcessedFrames == [k \in 1..Len(drainLog) |-> drainLog[k].frame]

NonEmptyPulls == SelectSeq(Pulls, LAMBDA r : r.before # <<>>)

\* C28: the staging ring never holds more than its capacity (160000 samples);
\* a push on a full ring fails, the new sample is dropped and the stored
\* samples stay as they are, and the capture callback can always run to its
\* end; a pull from an empty ring yields an empty frame, which is not processed
C28_StagingRing ==
    /\ RINGBUF_SIZE = 160000
    /\ Len(staging) <= config.capacity
    /\ \A n \in 1..Len(Pushes) :
           LET r    == Pushes[n]
               room == config.capacity - Len(r.before)
           IN  /\ Len(r.after) <= config.capacity
               /\ r.after = r.before \o SubSeq(r.input, 1, Min(room, Len(r.input)))
    /\ Len(staging) = config.capacity /\ Len(Pushes) < MaxCallbacks =>
           \A input \in CallbackInputs(config.channels) : ENABLED CaptureCallback(input)
    /\ \A n \in 1..Len(Pulls) : Pulls[n].input = Pulls[n].before /\ Pulls[n].after = <<>>
    /\ ProcessedFrames = [k \in 1..Len(NonEmptyPulls) |-> NonEmptyPulls[k].input]

\* a callback found the ring full and a pull found the ring empty
C28_Witness ==
    /\ \E n \in 1..Len(Pushes) :
           Len(Pushes[n].before) = config.capacity /\ Pushes[n].after = Pushes[n].before
    /\ \E n \in 1..Len(Pulls) : Pulls[n].before = <<>>

\* the initialization failures the statement names
StatedFaults == {"device", "format", "model", "injector"}

\* C21: when initialization fails (no input device, unsupported sample format,
\* model unavailable, injector facade not constructed) start_engine returns the
\* error and the engine does not run: no audio is segmented, no segment is
\* transcribed and no text is injected
C21_InitErrorsReturned ==
    threads.fault \in StatedFaults =>
        /\ threads.start_engine = "Err"
        /\ drainLog = <<>>
        /\ handed = <<>>
        /\ transcribeLog = <<>>
        /\ injectLog = <<>>

\* C22: when inject returns an error the injector loop logs it and goes on:
\* the failed text is not tried again (one inject call per text, in the order
\* of the channel, the two queued texts all accounted for), the loop is back
\* at its receive and the next text is received and injected; a clipboard
\* that cannot take the text leaves the paste chord unsent
C22_InjectionErrors ==
    /\ \A k \in 1..Len(injectLog) :
           LET r == injectLog[k]
               c == inject_clipboard(r.text, r.clipboard_before, FALSE)
           IN  /\ r.seg = k
               /\ r.error_logged <=> ~r.effects.ok
               /\ ~c.ok /\ c.events = <<>> /\ c.clipboard = r.clipboard_before
               /\ inject_clipboard(r.text, r.clipboard_before, TRUE).events = paste_chord
    /\ threads.injector = "running"
    /\ Len(injectLog) + Len(text_chan) + (IF inj_pc = "inject" THEN 1 ELSE 0) = 2
    /\ inj_pc = "inject" => inj_cur.seg = Len(injectLog) + 1
    /\ inj_pc \in {"recv", "inject"}

\* the first text failed and was logged, the second was received and typed
C22_Witness ==
    /\ Len(injectLog) = 2
    /\ ~injectLog[1].effects.ok /\ injectLog[1].error_logged
    /\ injectLog[2].effects.ok /\ injectLog[2].effects.events # <<>>
    /\ text_chan = <<>> /\ inj_pc = "recv"

\* the segments sent on the segment channel and the texts sent on the text channel
SegmentsSent == { k \in 1..Len(drainLog) : drainLog[k].resampled }
TextsSent    == { k \in 1..Len(transcribeLog) : transcribeLog[k].sent }

\* every message sent has been taken by its worker or is still queued, and a
\* worker has exited only after its sender was dropped and its channel was empty
ShutdownKeepsQueued ==
    /\ Cardinality(SegmentsSent) = Len(transcribeLog) + Len(audio_chan)
    /\ Cardinality(TextsSent) =
           Len(injectLog) + Len(text_chan) + (IF inj_pc = "inject" THEN 1 ELSE 0)
    /\ threads.transcriber = "exited" =>
           /\ AudioSenderDropped
           /\ audio_chan = <<>>
           /\ Len(transcribeLog) = Cardinality(SegmentsSent)
    /\ threads.injector = "exited" =>
           /\ TextSenderDropped
           /\ text_chan = <<>> /\ inj_pc = "recv"
           /\ Len(injectLog) = Cardinality(TextsSent)

\* C30: once the sender of the segment channel is dropped the transcriber takes
\* the segments still queued and exits at its next receive, dropping the text
\* sender; the injector takes the texts still queued and exits at its next
\* receive; both loops eventually end and nothing queued is lost
C30_ShutdownCascade ==
    /\ []ShutdownKeepsQueued
    /\ AudioSenderDropped ~>
           (threads.transcriber = "exited" /\ threads.injector = "exited")

\* both workers have exited after a segment that was queued when the sender
\* was dropped has been transcribed and its text injected
C30_Witness ==
    /\ threads.transcriber = "exited" /\ threads.injector = "exited"
    /\ transcribeLog # <<>> /\ injectLog # <<>>

\* v / 65536 = x / 32768, both sides multiplied by 65536 * 32768 / 16384
IsOver32768(v, x) == v * 2 = x * 4

\* C31: an i16 x is pushed as x / 32768, which lies in [-1, 1), 0 as 0 and
\* -32768 as -1.0; a u16 x is pushed as (x - 32768) / 32768, 32768 as 0.0 and
\* 0 as -1.0; a stereo frame gives the one sample (L + R) / 2 and a mono frame
\* its value, so one sample is pushed per device frame
C31_SampleConversion ==
    \A n \in 1..Len(captureLog) :
        LET r      == captureLog[n]
            pushed == r.after[Len(r.after)][3]
            centred(x) == IF r.format = "u16" THEN x - 32768 ELSE x
        IN  /\ Len(r.after) = Len(r.before) + 1
            /\ Len(r.frame) = 1 =>
                   /\ r.format \in {"i16", "u16"} => IsOver32768(pushed, centred(r.frame[1]))
                   /\ r.format = "f32" => pushed = r.frame[1]
                   /\ r.format \in {"i16", "u16"} => -F32_ONE <= pushed /\ pushed < F32_ONE
                   /\ r.format = "i16" /\ r.frame[1] = 0 => pushed = 0
                   /\ r.format = "i16" /\ r.frame[1] = I16_MIN => pushed = -F32_ONE
                   /\ r.format = "u16" /\ r.frame[1] = 32768 => pushed = 0
                   /\ r.format = "u16" /\ r.frame[1] = 0 => pushed = -F32_ONE
            /\ Len(r.frame) = 2 =>
                   IF r.format = "f32" THEN 2 * pushed = r.frame[1] + r.frame[2]
                   ELSE IsOver32768(2 * pushed, centred(r.frame[1]) + centred(r.frame[2]))

\* the largest i16 went through the mono callback and is just below 1.0
C31_Witness ==
    /\ captureLog # <<>>
    /\ captureLog[1].format = "i16" /\ captureLog[1].frame = << I16_MAX >>
    /\ staging = << << 1, 1, F32_ONE - 2 >> >>

\* the last n turns of the engine loop all found the staging ring empty
LastPullsEmpty(n) ==
    /\ Len(Pulls) >= n
    /\ \A k \in (Len(Pulls) - n + 1)..Len(Pulls) : Pulls[k].before = <<>>

\* C32: every turn of the engine loop, a turn that drained nothing included,
\* computes an RMS (0 for the empty frame) and feeds it to the VAD; so after
\* stop_frames turns in a row on an empty ring the state is Silence and no
\* segment is left in the accumulator
C32_EveryTickFeedsVad ==
    /\ Len(rmsLog) = Len(Pulls)
    /\ \A k \in 1..Len(Pulls) : Pulls[k].before = <<>> => rmsLog[k] = 0
    /\ LastPullsEmpty(vad.stop_window_frames) =>
           vad.current_state = "Silence" /\ voice_buffer = <<>>

\* the commands that are between shortcuts.write() and their return
WriterProcs ==
    { p \in CommandIds : ctl.procs[p].op \in {"upsert", "delete"}
                         /\ ctl.procs[p].pc \in {"modify", "load", "save"} }

\* somebody is in the middle of a command or of the injector's loop body
ControlPending ==
    \/ \E p \in CommandIds : ctl.procs[p].pc \in {"lock", "modify", "load", "save"}
    \/ inj_pc = "inject"

\* somebody of them can take the next step
ControlCanStep ==
    \/ \E p \in CommandIds : ctl.procs[p].pc \in {"modify", "load", "save"}
    \/ \E p \in CommandIds : ctl.procs[p].pc = "lock" /\ ctl.writers = {} /\ ctl.readers = {}
    \/ inj_pc = "inject" /\ ("injector" \in ctl.readers \/ ctl.writers = {})

\* C33: the shortcut table is isolated: at most one command holds it for
\* writing and then no reader holds it; while the injector holds it for
\* reading, from before the inject call to after it, the table is the one
\* the hold was taken on, and the inject call has worked on that table, so
\* an upsert or delete falls entirely before or entirely after the call;
\* and whenever a command or the injector is under way, one of them can step
C33_ShortcutIsolation ==
    /\ ctl.writers = WriterProcs
    /\ Cardinality(ctl.writers) <= 1
    /\ ctl.writers # {} => ctl.readers = {}
    /\ "injector" \in ctl.readers => settings.shortcuts = ctl.held
    /\ injectLog # <<>> => injectLog[Len(injectLog)].shortcuts = ctl.held
    /\ ControlPending => ControlCanStep

\* one delete has completed, the injector holds the table for reading and
\* an upsert waits for it
C33_Witness ==
    /\ "injector" \in ctl.readers
    /\ \E p \in CommandIds, q \in CommandIds :
          /\ ctl.procs[p].pc = "lock" /\ ctl.procs[p].op = "upsert"
          /\ ctl.procs[q].pc = "done" /\ ctl.procs[q].op = "delete"

\* C34: once two concurrent commands that change different fields have both
\* completed, the persisted record agrees with the cells on both fields
C34_NoLostUpdate ==
    ( /\ \A p \in CommandIds : ctl.procs[p].pc = "done"
      /\ \A p \in CommandIds, q \in CommandIds :
            p # q => ctl.procs[p].field # ctl.procs[q].field )
    => \A p \in CommandIds :
          persisted[1][ctl.procs[p].field] = settings[ctl.procs[p].field]

\* the segments sent to the transcriber so far: those it has taken and those queued
SentCount == Len(audio_chan) + Len(transcribeLog)

SilenceEvents == { k \in 1..Len(observer) : observer[k].event = "vad-update" /\ observer[k].state = "silence" }

\* one step sends at most one segment, and only on a tick that goes from
\* Speaking to Silence, where the segment is the resampled non-empty
\* accumulator; on such a tick the accumulator is handed to the resampler,
\* and when the resampler succeeds one segment is sent
OneSegmentStep ==
    LET n     == (Len(audio_chan') + Len(transcribeLog')) - SentCount
        ended == /\ Len(drainLog') = Len(drainLog) + 1
                 /\ last_state = "Speaking" /\ last_state' = "Silence"
        tick  == drainLog'[Len(drainLog')]
    IN  /\ n \in {0, 1}
        /\ n = 1 => /\ ended
                    /\ voice_buffer # <<>>
                    /\ audio_chan'[Len(audio_chan')].data = resample(voice_buffer)
        /\ ended => /\ tick.hand
                    /\ voice_buffer' = <<>>
                    /\ tick.resampled => n = 1

\* C35: a segment is sent only on a tick where the VAD goes from Speaking to
\* Silence; every such tick whose resampling succeeds sends exactly one
\* segment, built from a non-empty accumulator; and the segments sent never
\* outnumber the silence events published
C35_OneSegmentPerUtterance ==
    /\ [][OneSegmentStep]_vars
    /\ [](SentCount <= Cardinality(SilenceEvents))

\* two utterances have ended: one was sent, the resampling of the other failed
C35_Witness ==
    /\ SentCount = 1
    /\ Cardinality(SilenceEvents) = 2
    /\ \E k \in 1..Len(drainLog) : drainLog[k].hand /\ ~drainLog[k].resampled

\* C36: at the end of every tick the segment accumulator is empty whenever
\* the VAD state is Silence and the pre-roll ring is empty whenever it is
\* Speaking, and no sample is held in both the pre-roll ring and the accumulator
C36_SegmenterBuffers ==
    /\ last_state = vad.current_state
    /\ vad.current_state = "Silence" => voice_buffer = <<>>
    /\ vad.current_state = "Speaking" => pre_roll_buffer = <<>>
    /\ \A i \in 1..Len(voice_buffer) :
          \A f \in 1..Len(pre_roll_buffer) :
             \A j \in 1..Len(pre_roll_buffer[f]) : voice_buffer[i] # pre_roll_buffer[f][j]

\* a second utterance is being accumulated after the pre-roll ring had been
\* full and was spliced in
C36_Witness ==
    /\ handed # <<>>
    /\ vad.current_state = "Speaking"
    /\ pre_roll_buffer = <<>>
    /\ Len(voice_buffer) > FrameLen

\* the samples whose push succeeded, in push order
PushedSamples ==
    LET ok == SelectSeq(captureLog, LAMBDA r : r.op = "push" /\ r.ok)
    IN  [k \in 1..Len(ok) |-> ok[k].sample]

\* the samples the drains have taken out, in the order they were taken
DrainedSamples ==
    LET done == SpscLog("drained")
    IN  Flatten([k \in 1..Len(done) |-> done[k].buffer])
        \o (IF ctl.drain.pc = "pop" THEN ctl.drain.buffer ELSE <<>>)

\* the samples whose push succeeded after position n of the log
PushedAfter(n) ==
    LET ok == SelectSeq(SubSeq(captureLog, n + 1, Len(captureLog)),
                        LAMBDA r : r.op = "push" /\ r.ok)
    IN  [k \in 1..Len(ok) |-> ok[k].sample]

TranscriberStops == threads.transcriber = "running" /\ threads'.transcriber = "exited"

C39_FailedDownloadLeavesNothing ==
    \A k \in 1..Len(ctl.model.calls) :
       LET c == ctl.model.calls[k]
       IN  /\ c.result = "Err" => c.after = AbsentFile
           /\ c.result = "Ok" /\ c.path = "local" => c.after = FileOf(ModelBody)

\* the passes the bracket loop made on the text of log entry k
PassesOf(k) == strip_passes(trim(transcribeLog[k].full_text))

RemovingPasses(k) == { i \in 1..Len(PassesOf(k)) : PassesOf(k)[i].removed }

\* C40 as stated: the loop ends, each pass of its body removes at least two
\* characters or leaves the loop, and the passes number at most half the
\* length of the text
C40_AsStated ==
    \A k \in 1..Len(transcribeLog) :
       /\ \A i \in 1..Len(PassesOf(k)) :
             LET pass == PassesOf(k)[i]
             IN  \/ Len(pass.after) <= Len(pass.before) - 2
                 \/ ~pass.removed /\ i = Len(PassesOf(k))
       /\ 2 * Len(PassesOf(k)) <= Len(trim(transcribeLog[k].full_text))

\* C40: the bracket loop ends on every text: each pass of its body removes
\* at least two characters or is the last one, the removing passes number at
\* most half the length of the text and the passes at most one more, the
\* loop ends with the text the filter goes on with, and the transcriber has
\* taken the segment off the channel
C40_BracketLoopTerminates ==
    \A k \in 1..Len(transcribeLog) :
       LET text   == trim(transcribeLog[k].full_text)
           passes == PassesOf(k)
       IN  /\ \A i \in 1..Len(passes) :
                 \/ Len(passes[i].after) <= Len(passes[i].before) - 2
                 \/ ~passes[i].removed /\ i = Len(passes)
           /\ 2 * Cardinality(RemovingPasses(k)) <= Len(text)
           /\ Len(passes) <= Cardinality(RemovingPasses(k)) + 1
           /\ strip_brackets(text) = (IF passes = <<>> THEN text ELSE passes[Len(passes)].after)
           /\ transcribeLog[k].text = trim(strip_brackets(text))
           /\ audio_chan = <<>>

\* a text went through the loop with one removing pass and a last pass that
\* found no closer
C40_Witness ==
    \E k \in 1..Len(transcribeLog) :
       /\ Len(PassesOf(k)) = 2
       /\ PassesOf(k)[1].removed
       /\ ~PassesOf(k)[2].removed
====
